---- MODULE Spec2Model ----
(***************************************************************************)
(* A model of grngo, the Go binding of Groonga (src/grngo.go): row         *)
(* insertion by key (Table.InsertRow), the schema cache (DB.FindTable,     *)
(* Table.FindColumn), the command builder (DB.SendEx), the value codec     *)
(* (Column.SetValue, Column.GetValue), the initialisation counter and the  *)
(* handles (Init, Fin, CreateDB, OpenDB, DB.Close), Table.CreateColumn,    *)
(* and FindTable calls of several goroutines.                              *)
(*                                                                         *)
(* The C side of the binding (grngo.h / grngo.c: grngo_table_insert_*,     *)
(* grngo_column_set_*, grngo_column_get_*, grngo_find_table, ...) is not   *)
(* part of src/; the operators that stand for it are marked "native" and   *)
(* follow spec.md.  Every native call may fail; the failure is an input    *)
(* of the action that makes the call.                                      *)
(***************************************************************************)
EXTENDS Integers, Sequences, FiniteSets, TLC

VARIABLES
    db,         \* the DB handle: db.tables, each Table with its columns
    cmd,        \* SendEx: the command name and options of the call
    sent,       \* SendEx: the commands handed to grn_ctx_send
    table,      \* InsertRow: the Table the rows are inserted into
    rows,       \* InsertRow: the native table, the native keys in id order
    firstId,    \* InsertRow: history, the Go keys inserted so far with their ids
    column,     \* SetValue, GetValue: the Column, [valueType, isVector]
    cell,       \* SetValue, GetValue: what the native column holds for the row
    lastSet,    \* SetValue: history, the value of the last call that returned nil
    initCount,  \* the package variable initCount
    handles,    \* the DB handles CreateDB and OpenDB returned, each with its caches
    disabled,   \* history: DisableInitCount was called
    assumed,    \* history: only CreateDB, OpenDB and Close moved initCount, and
                \* every grn_init and grn_fin succeeded
    procs,      \* concurrent FindTable calls: each goroutine's position and locals
    ret         \* what the last call got and returned

catalogVars == <<db>>
insertVars == <<table, rows, firstId>>
sendVars == <<cmd, sent>>
codecVars == <<column, cell, lastSet>>
lifeVars == <<initCount, handles, disabled, assumed>>
raceVars == <<procs>>
vars == <<db, cmd, sent, table, rows, firstId, column, cell, lastSet,
          initCount, handles, disabled, assumed, procs, ret>>

----------------------------------------------------------------------------
(* Data types, src/grngo.go:32-52.  A DataType is modelled by its name.    *)

Void == "Void"
Bool == "Bool"
Int8 == "Int8"
Int16 == "Int16"
Int32 == "Int32"
Int64 == "Int64"
UInt8 == "UInt8"
UInt16 == "UInt16"
UInt32 == "UInt32"
UInt64 == "UInt64"
Float == "Float"
Time == "Time"
ShortText == "ShortText"
Text == "Text"
LongText == "LongText"
TokyoGeoPoint == "TokyoGeoPoint"
WGS84GeoPoint == "WGS84GeoPoint"

DataType ==
    {Void, Bool, Int8, Int16, Int32, Int64, UInt8, UInt16, UInt32, UInt64,
     Float, Time, ShortText, Text, LongText, TokyoGeoPoint, WGS84GeoPoint}

IntTypes == {Int8, Int16, Int32, Int64, UInt8, UInt16, UInt32, UInt64}
TextTypes == {ShortText, Text, LongText}
GeoTypes == {TokyoGeoPoint, WGS84GeoPoint}

\* GRN_ID_NIL, the "no row" id.
NilID == 0

----------------------------------------------------------------------------
(* 64-bit integers.  TLC's integers are 32 bits wide, so a Go int64 is its *)
(* two's complement bit pattern in four 16-bit words, lowest word first.   *)
(* The conversions below are Go's conversions to the C integer types: they *)
(* keep the low bits and then sign- or zero-extend, the result being again *)
(* a 64-bit pattern (the value the native function receives).              *)

Ext(neg) == IF neg THEN 65535 ELSE 0

\* The int64 of a small number n, -2^31 <= n < 2^31.
I64(n) == <<n % 65536, (n \div 65536) % 65536, Ext(n < 0), Ext(n < 0)>>

int8_t(v) ==
    LET b == v[1] % 256
    IN  IF b >= 128 THEN <<65280 + b, 65535, 65535, 65535>> ELSE <<b, 0, 0, 0>>
int16_t(v) == <<v[1], Ext(v[1] >= 32768), Ext(v[1] >= 32768), Ext(v[1] >= 32768)>>
int32_t(v) == <<v[1], v[2], Ext(v[2] >= 32768), Ext(v[2] >= 32768)>>
int64_t(v) == v
uint8_t(v) == <<v[1] % 256, 0, 0, 0>>
uint16_t(v) == <<v[1], 0, 0, 0>>
uint32_t(v) == <<v[1], v[2], 0, 0>>
\* All 64 bits are kept: the pattern stands for the unsigned value.
uint64_t(v) == v

----------------------------------------------------------------------------
(* Bounds of the model.                                                    *)

\* Rows a native table holds; the native insert fails on a full table.
MaxRows == 2
\* Bytes in a text key.
MaxKeyLen == 1

----------------------------------------------------------------------------
(* Go values.  A value of type interface{} is [kind, v]: kind is the Go    *)
(* type the type switch sees, v the value.  A float64 is modelled by a     *)
(* number that stands for it, a []byte by the sequence of its bytes.       *)

GoNil == [kind |-> "nil", v |-> 0]
GoBool(b) == [kind |-> "bool", v |-> b]
GoInt64(n) == [kind |-> "int64", v |-> I64(n)]
GoFloat64(f) == [kind |-> "float64", v |-> f]
GoGeoPoint(lat, lon) == [kind |-> "GeoPoint", v |-> [Latitude |-> lat, Longitude |-> lon]]
GoBytes(s) == [kind |-> "[]byte", v |-> s]
\* A Go string: a type neither type switch has a case for.
GoString(s) == [kind |-> "string", v |-> s]

BytesUpTo(alphabet, n) == UNION {[1..k -> alphabet] : k \in 0..n}

\* 1, 257 and 65537 share their low 8 bits, 1 and 65537 their low 16 bits;
\* -1 and 255 share their low 8 bits.
IntKeys == {1, 257, 65537, -1, 255}

\* The keys InsertRow is called with, by kind (the values of one kind are
\* of one shape).
KeyKinds == {"nil", "bool", "int64", "float64", "GeoPoint", "[]byte", "string"}
KeyInputs(kind) ==
    CASE kind = "nil" -> {GoNil}
      [] kind = "bool" -> {GoBool(b) : b \in BOOLEAN}
      [] kind = "int64" -> {GoInt64(n) : n \in IntKeys}
      [] kind = "float64" -> {GoFloat64(f) : f \in {0, 1}}
      [] kind = "GeoPoint" -> {GoGeoPoint(1, 2), GoGeoPoint(2, 1)}
      [] kind = "[]byte" -> {GoBytes(s) : s \in BytesUpTo({97, 98}, MaxKeyLen)}
      [] kind = "string" -> {GoString("key")}

\* Equality of two Go values: the kinds are compared first.
SameValue(a, b) == a.kind = b.kind /\ a.v = b.v

----------------------------------------------------------------------------
(* Table.InsertRow and the insert functions it dispatches to.  Each        *)
(* returns [inserted, id, err, calls, rows]: the three Go results (err ""  *)
(* is nil), the native calls issued and the native table afterwards.       *)

\* native: grngo_table_insert_*(ctx, table, key) finds the row of the key or
\* adds one, and returns grngo_row_info {id, inserted}; id is GRN_ID_NIL on
\* failure.  A table without key gets a new row each time.
grngo_table_insert(rs, keyed, nkey, ok) ==
    LET found == {i \in 1..Len(rs) : keyed /\ rs[i].fn = nkey.fn /\ rs[i].v = nkey.v}
    IN  IF ~ok
        THEN [id |-> NilID, inserted |-> FALSE, rows |-> rs]
        ELSE IF found # {}
        THEN [id |-> CHOOSE i \in found : TRUE, inserted |-> FALSE, rows |-> rs]
        ELSE IF Len(rs) >= MaxRows
        THEN [id |-> NilID, inserted |-> FALSE, rows |-> rs]
        ELSE [id |-> Len(rs) + 1, inserted |-> TRUE, rows |-> Append(rs, nkey)]

keyTypeConflict(rs) ==
    [inserted |-> FALSE, id |-> NilID, err |-> "key type conflict",
     calls |-> <<>>, rows |-> rs]

\* The tail every insert function shares: the native call, then the test of
\* rowInfo.id against GRN_ID_NIL.
insertNative(fn, rs, keyed, nkey, ok) ==
    LET rowInfo == grngo_table_insert(rs, keyed, [fn |-> fn, v |-> nkey], ok)
        call == [fn |-> fn, key |-> nkey, ok |-> rowInfo.id # NilID]
    IN  IF rowInfo.id = NilID
        THEN [inserted |-> FALSE, id |-> NilID, err |-> fn \o "() failed",
              calls |-> <<call>>, rows |-> rowInfo.rows]
        ELSE [inserted |-> rowInfo.inserted, id |-> rowInfo.id, err |-> "",
              calls |-> <<call>>, rows |-> rowInfo.rows]

insertVoid(t, rs, ok) ==
    IF t.keyType # Void THEN keyTypeConflict(rs)
    ELSE insertNative("grngo_table_insert_void", rs, FALSE, 0, ok)

insertBool(t, key, rs, ok) ==
    IF t.keyType # Bool THEN keyTypeConflict(rs)
    ELSE insertNative("grngo_table_insert_bool", rs, TRUE, key, ok)

insertInt(t, key, rs, ok) ==
    CASE t.keyType = Int8 -> insertNative("grngo_table_insert_int8", rs, TRUE, int8_t(key), ok)
      [] t.keyType = Int16 -> insertNative("grngo_table_insert_int16", rs, TRUE, int16_t(key), ok)
      [] t.keyType = Int32 -> insertNative("grngo_table_insert_int32", rs, TRUE, int32_t(key), ok)
      [] t.keyType = Int64 -> insertNative("grngo_table_insert_int64", rs, TRUE, int64_t(key), ok)
      [] t.keyType = UInt8 -> insertNative("grngo_table_insert_uint8", rs, TRUE, uint8_t(key), ok)
      [] t.keyType = UInt16 -> insertNative("grngo_table_insert_uint16", rs, TRUE, uint16_t(key), ok)
      [] t.keyType = UInt32 -> insertNative("grngo_table_insert_uint32", rs, TRUE, uint32_t(key), ok)
      [] t.keyType = UInt64 -> insertNative("grngo_table_insert_uint64", rs, TRUE, uint64_t(key), ok)
      [] OTHER -> keyTypeConflict(rs)

\* insertFloat without its test of the key type.
insertFloat_Unchecked(t, key, rs, ok) ==
    insertNative("grngo_table_insert_float", rs, TRUE, key, ok)

insertFloat(t, key, rs, ok) ==
    IF t.keyType # Float THEN keyTypeConflict(rs)
    ELSE insertNative("grngo_table_insert_float", rs, TRUE, key, ok)

insertGeoPoint(t, key, rs, ok) ==
    IF t.keyType \notin {TokyoGeoPoint, WGS84GeoPoint} THEN keyTypeConflict(rs)
    ELSE insertNative("grngo_table_insert_geo_point", rs, TRUE, key, ok)

insertText(t, key, rs, ok) ==
    IF t.keyType # ShortText THEN keyTypeConflict(rs)
    ELSE insertNative("grngo_table_insert_text", rs, TRUE, key, ok)

InsertRow(t, key, rs, ok) ==
    CASE key.kind = "nil" -> insertVoid(t, rs, ok)
      [] key.kind = "bool" -> insertBool(t, key.v, rs, ok)
      [] key.kind = "int64" -> insertInt(t, key.v, rs, ok)
      [] key.kind = "float64" -> insertFloat(t, key.v, rs, ok)
      [] key.kind = "GeoPoint" -> insertGeoPoint(t, key.v, rs, ok)
      [] key.kind = "[]byte" -> insertText(t, key.v, rs, ok)
      [] OTHER -> [inserted |-> FALSE, id |-> NilID,
                   err |-> "unsupported key type: typeName = <" \o key.kind \o ">",
                   calls |-> <<>>, rows |-> rs]

----------------------------------------------------------------------------
(* The schema of the database, as the native side reports it.  A           *)
(* grngo_type_info is [data_type, ref_table, dimension]; ref_table is the  *)
(* name of the referenced table ("" for NULL), data_type then the builtin  *)
(* type at the end of the reference chain.                                 *)

NoRef == ""
Info(dataType, refTable, dimension) ==
    [data_type |-> dataType, ref_table |-> refTable, dimension |-> dimension]

\* A: ShortText keys; columns that refer to B (scalar and vector) and plain ones.
\* B: its key refers to C; a column that refers to C.
\* C: Int8 keys.  N: no key.
\* V: its key refers to N, which has no key: a reference of type Void.
\* L: its key refers to L itself.
Schema ==
    [A |-> [key |-> Info(ShortText, NoRef, 0), value |-> Info(Void, NoRef, 0),
            columns |-> [r |-> Info(Int8, "B", 0), rv |-> Info(Int8, "B", 1),
                         n |-> Info(Int32, NoRef, 0), rn |-> Info(Void, "N", 0)]],
     B |-> [key |-> Info(Int8, "C", 0), value |-> Info(Void, NoRef, 0),
            columns |-> [v |-> Info(Float, NoRef, 0), w |-> Info(Text, NoRef, 1),
                         r2 |-> Info(Int8, "C", 0)]],
     C |-> [key |-> Info(Int8, NoRef, 0), value |-> Info(ShortText, "A", 0),
            columns |-> [v |-> Info(Bool, NoRef, 0), w |-> Info(Bool, NoRef, 1)]],
     N |-> [key |-> Info(Void, NoRef, 0), value |-> Info(Void, NoRef, 0),
            columns |-> [v |-> Info(UInt32, NoRef, 0)]],
     V |-> [key |-> Info(Void, "N", 0), value |-> Info(Void, NoRef, 0),
            columns |-> [v |-> Info(UInt32, NoRef, 0)]],
     L |-> [key |-> Info(ShortText, "L", 0), value |-> Info(Void, NoRef, 0),
            columns |-> [v |-> Info(UInt32, NoRef, 0)]]]

\* Recursive FindTable calls the Go stack holds before it overflows.
MaxDepth == 3
\* The native call of one operation that fails, counted from 1 (0: none).
MaxFailAt == 3

----------------------------------------------------------------------------
(* DB, Table and Column objects.  A pointer to a Table is [name, gen]: gen *)
(* tells the objects made for one name apart.  db.tables and table.columns *)
(* hold the objects they point to.  A column name is the sequence of its   *)
(* segments: <<"r", "v">> is "r.v".                                        *)

NilTable == [name |-> "", gen |-> 0]
NilColumn ==
    [table |-> NilTable, name |-> <<>>, gen |-> 0,
     valueType |-> Void, isVector |-> FALSE, valueTable |-> NilTable]
TableRef(t) == [name |-> t.name, gen |-> t.gen]
ColumnRef(c) == [table |-> c.table, name |-> c.name, gen |-> c.gen]

Put(f, k, v) == [x \in DOMAIN f \cup {k} |-> IF x = k THEN v ELSE f[x]]
NoEntries == [x \in {} |-> 0]

newDB == [tables |-> NoEntries]

newTable(d, name, keyType, keyTable, valueType, valueTable) ==
    [name |-> name,
     gen |-> IF name \in DOMAIN d.tables THEN d.tables[name].gen + 1 ELSE 1,
     keyType |-> keyType, keyTable |-> keyTable,
     valueType |-> valueType, valueTable |-> valueTable,
     columns |-> NoEntries]

newColumn(t, name, valueType, isVector, valueTable) ==
    [table |-> TableRef(t), name |-> name,
     gen |-> IF name \in DOMAIN t.columns THEN t.columns[name].gen + 1 ELSE 1,
     valueType |-> valueType, isVector |-> isVector, valueTable |-> valueTable]

\* Whether the next native call succeeds, given the calls made so far.
CallOk(calls, failAt) == Len(calls) + 1 # failAt
Call(fn, arg, ok) == [fn |-> fn, arg |-> arg, ok |-> ok]

\* A call of FindTable or FindColumn returns [db, table, column, err, calls].
Returns(d, t, c, err, calls) ==
    [db |-> d, table |-> t, column |-> c, err |-> err, calls |-> calls]

----------------------------------------------------------------------------
(* DB.FindTable.                                                           *)

\* Eval(v, F) is F(v), with v computed once, before F.
Eval(v, F(_)) == CHOOSE y \in {F(x) : x \in {v}} : TRUE

\* The log of native calls after one more call; the call fails when the
\* environment fails it or when the object it looks for does not exist.
NativeCall(calls, failAt, fn, arg, exists) ==
    Append(calls, Call(fn, arg, CallOk(calls, failAt) /\ exists))
Failed(calls) == ~calls[Len(calls)].ok

RECURSIVE FindTable(_, _, _, _, _)

\* The table a key, a value or a column refers to: "Find the destination
\* table if the key is table reference".
findRefTable(d, info, name, calls, failAt, depth) ==
    IF info.ref_table = NoRef
    THEN Returns(d, NilTable, NilColumn, "", calls)
    ELSE IF info.data_type = Void
    THEN Returns(d, NilTable, NilColumn, "reference to void: name = <" \o name \o ">", calls)
    ELSE Eval(NativeCall(calls, failAt, "grngo_table_get_name", info.ref_table, TRUE),
              LAMBDA calls1 :
         IF Failed(calls1)
         THEN Returns(d, NilTable, NilColumn, "grngo_table_get_name() failed", calls1)
         ELSE FindTable(d, info.ref_table, calls1, failAt, depth + 1))

\* FindTable that inserts the Table into db.tables as soon as its key is
\* known, before the value is resolved.
findTableMiss_EarlyInsert(d, name, calls, failAt, depth) ==
    IF depth > MaxDepth
    THEN Returns(d, NilTable, NilColumn, "fatal error: stack overflow", calls)
    ELSE
    Eval(NativeCall(calls, failAt, "grngo_find_table", name, name \in DOMAIN Schema),
         LAMBDA calls1 :
    IF Failed(calls1)
    THEN Returns(d, NilTable, NilColumn, "table not found: name = <" \o name \o ">", calls1)
    ELSE
    Eval(NativeCall(calls1, failAt, "grngo_table_get_key_info", name, TRUE),
         LAMBDA calls2 :
    IF Failed(calls2)
    THEN Returns(d, NilTable, NilColumn,
                 "grngo_table_get_key_info() failed: name = <" \o name \o ">", calls2)
    ELSE
    Eval(findRefTable(d, Schema[name].key, name, calls2, failAt, depth),
         LAMBDA key :
    IF key.err # ""
    THEN key
    ELSE
    Eval(NativeCall(key.calls, failAt, "grngo_table_get_value_info", name, TRUE),
         LAMBDA calls3 :
    IF Failed(calls3)
    THEN Returns([key.db EXCEPT !.tables =
                     Put(@, name, newTable(key.db, name, Schema[name].key.data_type,
                                           key.table, Void, NilTable))],
                 NilTable, NilColumn,
                 "grngo_table_get_value_info() failed: name = <" \o name \o ">", calls3)
    ELSE
    Eval(findRefTable(key.db, Schema[name].value, name, calls3, failAt, depth),
         LAMBDA value :
    IF value.err # ""
    THEN value
    ELSE
    Eval(newTable(value.db, name, Schema[name].key.data_type, key.table,
                  Schema[name].value.data_type, value.table),
         LAMBDA t :
    Returns([value.db EXCEPT !.tables = Put(@, name, t)],
            TableRef(t), NilColumn, "", value.calls)))))))

\* FindTable that looks into db.tables again before it inserts, and
\* returns the Table it finds there.
findTableMiss_SecondLook(d, name, calls, failAt, depth) ==
    IF depth > MaxDepth
    THEN Returns(d, NilTable, NilColumn, "fatal error: stack overflow", calls)
    ELSE
    Eval(NativeCall(calls, failAt, "grngo_find_table", name, name \in DOMAIN Schema),
         LAMBDA calls1 :
    IF Failed(calls1)
    THEN Returns(d, NilTable, NilColumn, "table not found: name = <" \o name \o ">", calls1)
    ELSE
    Eval(NativeCall(calls1, failAt, "grngo_table_get_key_info", name, TRUE),
         LAMBDA calls2 :
    IF Failed(calls2)
    THEN Returns(d, NilTable, NilColumn,
                 "grngo_table_get_key_info() failed: name = <" \o name \o ">", calls2)
    ELSE
    Eval(findRefTable(d, Schema[name].key, name, calls2, failAt, depth),
         LAMBDA key :
    IF key.err # ""
    THEN key
    ELSE
    Eval(NativeCall(key.calls, failAt, "grngo_table_get_value_info", name, TRUE),
         LAMBDA calls3 :
    IF Failed(calls3)
    THEN Returns(key.db, NilTable, NilColumn,
                 "grngo_table_get_value_info() failed: name = <" \o name \o ">", calls3)
    ELSE
    Eval(findRefTable(key.db, Schema[name].value, name, calls3, failAt, depth),
         LAMBDA value :
    IF value.err # ""
    THEN value
    ELSE
    Eval(newTable(value.db, name, Schema[name].key.data_type, key.table,
                  Schema[name].value.data_type, value.table),
         LAMBDA t :
    IF name \in DOMAIN value.db.tables
    THEN Returns(value.db, TableRef(value.db.tables[name]), NilColumn, "", value.calls)
    ELSE Returns([value.db EXCEPT !.tables = Put(@, name, t)],
                 TableRef(t), NilColumn, "", value.calls)))))))

\* FindTable after the miss in db.tables.
findTableMiss(d, name, calls, failAt, depth) ==
    IF depth > MaxDepth
    THEN Returns(d, NilTable, NilColumn, "fatal error: stack overflow", calls)
    ELSE
    Eval(NativeCall(calls, failAt, "grngo_find_table", name, name \in DOMAIN Schema),
         LAMBDA calls1 :
    IF Failed(calls1)
    THEN Returns(d, NilTable, NilColumn, "table not found: name = <" \o name \o ">", calls1)
    ELSE
    Eval(NativeCall(calls1, failAt, "grngo_table_get_key_info", name, TRUE),
         LAMBDA calls2 :
    IF Failed(calls2)
    THEN Returns(d, NilTable, NilColumn,
                 "grngo_table_get_key_info() failed: name = <" \o name \o ">", calls2)
    ELSE
    Eval(findRefTable(d, Schema[name].key, name, calls2, failAt, depth),
         LAMBDA key :
    IF key.err # ""
    THEN key
    ELSE
    Eval(NativeCall(key.calls, failAt, "grngo_table_get_value_info", name, TRUE),
         LAMBDA calls3 :
    IF Failed(calls3)
    THEN Returns(key.db, NilTable, NilColumn,
                 "grngo_table_get_value_info() failed: name = <" \o name \o ">", calls3)
    ELSE
    Eval(findRefTable(key.db, Schema[name].value, name, calls3, failAt, depth),
         LAMBDA value :
    IF value.err # ""
    THEN value
    ELSE
    Eval(newTable(value.db, name, Schema[name].key.data_type, key.table,
                  Schema[name].value.data_type, value.table),
         LAMBDA t :
    Returns([value.db EXCEPT !.tables = Put(@, name, t)],
            TableRef(t), NilColumn, "", value.calls)))))))

\* FindTable without its look into db.tables.
FindTable_NoCache(d, name, calls, failAt, depth) ==
    findTableMiss(d, name, calls, failAt, depth)

FindTable(d, name, calls, failAt, depth) ==
    IF name \in DOMAIN d.tables
    THEN Returns(d, TableRef(d.tables[name]), NilColumn, "", calls)
    ELSE findTableMiss(d, name, calls, failAt, depth)

----------------------------------------------------------------------------
(* Table.findColumn and Table.FindColumn.  The receiver is a pointer to a  *)
(* Table of db.tables.                                                     *)

\* native: grn_obj_column() finds the column or accessor of a (dotted) name:
\* the three pseudo-columns exist in every table, a dotted name exists when
\* each segment but the last refers to the table that holds the next.
RECURSIVE NativeColumnExists(_, _)
NativeColumnExists(tableName, path) ==
    /\ path # <<>>
    /\ tableName \in DOMAIN Schema
    /\ IF Len(path) = 1
       THEN path[1] \in {"_id", "_key", "_value"} \cup DOMAIN Schema[tableName].columns
       ELSE /\ path[1] \in DOMAIN Schema[tableName].columns
            /\ NativeColumnExists(Schema[tableName].columns[path[1]].ref_table, Tail(path))

\* table.columns[name] = column
CacheColumn(d, tref, col) ==
    IF tref.name \in DOMAIN d.tables /\ d.tables[tref.name].gen = tref.gen
    THEN [d EXCEPT !.tables[tref.name].columns = Put(@, col.name, col)]
    ELSE d

\* The end of findColumn: the new Column, cached in its table.
cachedNewColumn(d, tref, name, valueType, isVector, valueTable, calls) ==
    Eval(newColumn(d.tables[tref.name], <<name>>, valueType, isVector, valueTable),
         LAMBDA col :
    Returns(CacheColumn(d, tref, col), tref, col, "", calls))

\* findColumn after the miss in table.columns.
findColumnMiss(d, tref, name, calls, failAt) ==
    Eval(d.tables[tref.name], LAMBDA t :
    Eval(NativeCall(calls, failAt, "grn_obj_column", <<t.name, <<name>>>>,
                    NativeColumnExists(t.name, <<name>>)),
         LAMBDA calls1 :
    IF Failed(calls1)
    THEN Returns(d, tref, NilColumn, "grn_obj_column() failed", calls1)
    ELSE CASE name = "_id" ->
                cachedNewColumn(d, tref, name, UInt32, FALSE, NilTable, calls1)
           [] name = "_key" ->
                cachedNewColumn(d, tref, name, t.keyType, FALSE, t.keyTable, calls1)
           [] name = "_value" ->
                cachedNewColumn(d, tref, name, t.valueType, FALSE, t.valueTable, calls1)
           [] OTHER ->
    Eval(NativeCall(calls1, failAt, "grngo_column_get_value_info", <<t.name, <<name>>>>, TRUE),
         LAMBDA calls2 :
    IF Failed(calls2)
    THEN Returns(d, tref, NilColumn,
                 "grngo_column_get_value_info() failed: name = <" \o name \o ">", calls2)
    ELSE
    Eval(findRefTable(d, Schema[t.name].columns[name], name, calls2, failAt, 0),
         LAMBDA ref :
    IF ref.err # ""
    THEN Returns(ref.db, tref, NilColumn, ref.err, ref.calls)
    ELSE cachedNewColumn(ref.db, tref, name, Schema[t.name].columns[name].data_type,
                         Schema[t.name].columns[name].dimension > 0,
                         ref.table, ref.calls)))))

findColumn(d, tref, name, calls, failAt) ==
    IF <<name>> \in DOMAIN d.tables[tref.name].columns
    THEN Returns(d, tref, d.tables[tref.name].columns[<<name>>], "", calls)
    ELSE findColumnMiss(d, tref, name, calls, failAt)

\* The loop of FindColumn over columnNames[1:]; it returns the last column
\* and, as isVector, the flag the loop has accumulated.
RECURSIVE walkColumns(_, _, _, _, _, _)

\* The loop without its test for a second vector segment.
walkColumns_NoVectorTest(d, col, isVector, columnNames, calls, failAt) ==
    IF columnNames = <<>>
    THEN [Returns(d, col.table, col, "", calls) EXCEPT !.column.isVector = isVector]
    ELSE IF col.valueTable = NilTable
    THEN Returns(d, col.table, NilColumn, "not table reference", calls)
    ELSE Eval(findColumn(d, col.valueTable, Head(columnNames), calls, failAt),
              LAMBDA next :
         IF next.err # ""
         THEN next
         ELSE walkColumns(next.db, next.column, isVector \/ next.column.isVector,
                          Tail(columnNames), next.calls, failAt))

\* The loop that goes on through a column that refers to no table: the
\* next segment is then looked up in the table of the column itself.
walkColumns_NoReferenceTest(d, col, isVector, columnNames, calls, failAt) ==
    IF columnNames = <<>>
    THEN [Returns(d, col.table, col, "", calls) EXCEPT !.column.isVector = isVector]
    ELSE Eval(findColumn(d, IF col.valueTable = NilTable THEN col.table ELSE col.valueTable,
                         Head(columnNames), calls, failAt),
              LAMBDA next :
         IF next.err # ""
         THEN next
         ELSE IF next.column.isVector /\ isVector
         THEN Returns(next.db, col.table, NilColumn,
                      "vector of vector is not supported", next.calls)
         ELSE walkColumns(next.db, next.column, isVector \/ next.column.isVector,
                          Tail(columnNames), next.calls, failAt))

walkColumns(d, col, isVector, columnNames, calls, failAt) ==
    IF columnNames = <<>>
    THEN [Returns(d, col.table, col, "", calls) EXCEPT !.column.isVector = isVector]
    ELSE IF col.valueTable = NilTable
    THEN Returns(d, col.table, NilColumn, "not table reference", calls)
    ELSE Eval(findColumn(d, col.valueTable, Head(columnNames), calls, failAt),
              LAMBDA next :
         IF next.err # ""
         THEN next
         ELSE IF next.column.isVector /\ isVector
         THEN Returns(next.db, col.table, NilColumn,
                      "vector of vector is not supported", next.calls)
         ELSE walkColumns(next.db, next.column, isVector \/ next.column.isVector,
                          Tail(columnNames), next.calls, failAt))

\* FindColumn after the miss in table.columns.
FindColumnMiss(d, tref, name, calls, failAt) ==
    IF Len(name) = 1
    THEN findColumn(d, tref, name[1], calls, failAt)
    ELSE
    Eval(findColumn(d, tref, name[1], calls, failAt), LAMBDA first :
    IF first.err # ""
    THEN first
    ELSE
    Eval(walkColumns(first.db, first.column, first.column.isVector,
                     Tail(name), first.calls, failAt),
         LAMBDA last :
    IF last.err # ""
    THEN Returns(last.db, tref, NilColumn, last.err, last.calls)
    ELSE
    Eval(NativeCall(last.calls, failAt, "grn_obj_column", <<tref.name, name>>,
                    NativeColumnExists(tref.name, name)),
         LAMBDA calls1 :
    IF Failed(calls1)
    THEN Returns(last.db, tref, NilColumn, "grn_obj_column() failed", calls1)
    ELSE
    Eval(newColumn(last.db.tables[tref.name], name, last.column.valueType,
                   last.column.isVector, first.column.valueTable),
         LAMBDA col :
    Returns(CacheColumn(last.db, tref, col), tref, col, "", calls1)))))

\* FindColumn without its look into table.columns.
FindColumn_NoCache(d, tref, name, calls, failAt) ==
    FindColumnMiss(d, tref, name, calls, failAt)

FindColumn(d, tref, name, calls, failAt) ==
    IF name \in DOMAIN d.tables[tref.name].columns
    THEN Returns(d, tref, d.tables[tref.name].columns[name], "", calls)
    ELSE FindColumnMiss(d, tref, name, calls, failAt)

----------------------------------------------------------------------------
(* DB.Send and DB.SendEx.  A string is the sequence of its runes (code     *)
(* points); options is the sequence of the <<key, value>> pairs of the Go  *)
(* map in the order the range loop happens to visit them.                  *)

\* Runes in a command name and in an option key.
MaxNameLen == 1
\* Options of a command.
MaxOptions == 1

\* strings.Replace(s, old, new, -1) for a one-rune old.
RECURSIVE Replace(_, _, _)
Replace(s, old, new) ==
    IF s = <<>> THEN <<>>
    ELSE (IF Head(s) = old THEN new ELSE <<Head(s)>>) \o Replace(Tail(s), old, new)

\* strings.Join(parts, " ")
RECURSIVE Join(_)
Join(parts) ==
    IF Len(parts) = 1 THEN parts[1]
    ELSE parts[1] \o <<32>> \o Join(Tail(parts))

\* The test of one rune of a name or key: (r != '_') && (r < 'a') && (r > 'z')
invalidRune(r) == (r # 95) /\ (r < 97) /\ (r > 122)

\* native: grn_ctx_send(); outcome is "ok", "rc" (the call returns an error
\* code) or "ctx.rc" (the call returns GRN_SUCCESS and leaves ctx.rc set).
Send(command, outcome) ==
    [sent |-> <<command>>,
     err |-> CASE outcome = "rc" -> "grn_ctx_send() failed: rc"
               [] outcome = "ctx.rc" -> "grn_ctx_send() failed: ctx.rc"
               [] OTHER -> ""]

\* The loop of SendEx over the options, from option i on.
RECURSIVE sendOptions(_, _, _, _)
sendOptions(options, i, commandParts, outcome) ==
    IF i > Len(options)
    THEN Send(Join(commandParts), outcome)
    ELSE LET key == options[i][1]
             value == Replace(Replace(options[i][2], 92, <<92, 92>>), 39, <<92, 39>>)
         IN  IF key = <<>> \/ \E j \in 1..Len(key) : invalidRune(key[j])
             THEN [sent |-> <<>>, err |-> "invalid option: key"]
             ELSE sendOptions(options, i + 1,
                      Append(commandParts,
                             <<45, 45>> \o key \o <<32, 39>> \o value \o <<39>>),
                      outcome)

SendEx(name, options, outcome) ==
    IF name = <<>> \/ \E j \in 1..Len(name) : invalidRune(name[j])
    THEN [sent |-> <<>>, err |-> "invalid command: name"]
    ELSE sendOptions(options, 1, <<name>>, outcome)

\* '1', 'A', '_' and 'a'.
NameRunes == {49, 65, 95, 97}
NameInputs == BytesUpTo(NameRunes, MaxNameLen)
\* "" and "\'".
ValueInputs == {<<>>, <<92, 39>>}
OptionInputs ==
    {o \in UNION {[1..k -> NameInputs \X ValueInputs] : k \in 0..MaxOptions} :
        \A i, j \in 1..Len(o) : i # j => o[i][1] # o[j][1]}

SendInit ==
    /\ cmd \in [name : NameInputs, options : OptionInputs, outcome : {"ok", "rc", "ctx.rc"}]
    /\ sent = <<>>
    /\ ret = [op |-> "none"]

SendExStep ==
    /\ ret.op = "none"
    /\ LET r == SendEx(cmd.name, cmd.options, cmd.outcome)
       IN  /\ sent' = sent \o r.sent
           /\ ret' = [op |-> "SendEx", err |-> r.err]
           /\ UNCHANGED cmd

SendNext == SendExStep /\ UNCHANGED <<catalogVars, insertVars, codecVars, lifeVars, raceVars>>

\* The identifier grammar [a-z_]+.
Identifier(s) == s # <<>> /\ \A i \in 1..Len(s) : s[i] = 95 \/ (97 <= s[i] /\ s[i] <= 122)

\* C4: SendEx returns an error and sends nothing when the command name or
\* an option key is not of the grammar [a-z_]+.
C4_MalformedRejected ==
    (/\ ret.op = "SendEx"
     /\ \/ ~Identifier(cmd.name)
        \/ \E i \in 1..Len(cmd.options) : ~Identifier(cmd.options[i][1]))
    => ret.err # "" /\ sent = <<>>

----------------------------------------------------------------------------
(* The schema cache: FindTable and FindColumn calls on one DB handle.      *)

TableNameInputs == DOMAIN Schema \cup {"X"}
\* The columns looked up, as <<table name, column name>>.
ColumnInputs ==
    {<<"A", <<"r">>>>, <<"A", <<"_key">>>>, <<"A", <<"zz">>>>, <<"A", <<"rn">>>>,
     <<"A", <<"r", "v">>>>, <<"A", <<"r", "r2", "v">>>>, <<"A", <<"rv", "w">>>>,
     <<"A", <<"n", "v">>>>, <<"B", <<"v">>>>, <<"C", <<"_value">>>>, <<"X", <<"v">>>>}
\* The dotted names looked up: without, with one and with two vector
\* segments, through a column that refers to no table, to a pseudo-column;
\* and two names whose resolution meets a reference of type Void.
PathInputs ==
    {<<"A", <<"r", "v">>>>, <<"A", <<"r", "r2", "v">>>>, <<"A", <<"rv", "v">>>>,
     <<"A", <<"r", "w">>>>, <<"A", <<"rv", "w">>>>, <<"A", <<"n", "v">>>>,
     <<"A", <<"r", "_value">>>>, <<"A", <<"rn">>>>, <<"V", <<"v">>>>}

\* A stack overflow ends the process.
Crashed == ret.op # "none" /\ ret.fatal
IsFatal(r) == r.err = "fatal error: stack overflow"

\* The cached Table of a name and the cached Column of a name, if any.
CachedTable(d, name) ==
    IF name \in DOMAIN d.tables THEN TableRef(d.tables[name]) ELSE NilTable
CachedColumn(d, tableName, name) ==
    IF tableName \in DOMAIN d.tables /\ name \in DOMAIN d.tables[tableName].columns
    THEN ColumnRef(d.tables[tableName].columns[name])
    ELSE ColumnRef(NilColumn)

\* Every entry of the caches of d is an entry of the caches of e.
CachesKept(d, e) ==
    \A t \in DOMAIN d.tables :
        /\ CachedTable(e, t) = CachedTable(d, t)
        /\ \A c \in DOMAIN d.tables[t].columns :
               CachedColumn(e, t, c) = CachedColumn(d, t, c)

\* What a call got and returned; cachedTable and cachedColumn are the cache
\* entries of its names before the call.
Observed(op, tableName, name, r) ==
    [op |-> op, tableName |-> tableName, name |-> name,
     table |-> r.table, column |-> r.column, err |-> r.err, calls |-> r.calls,
     fatal |-> IsFatal(r),
     cachedTable |-> CachedTable(db, tableName),
     cachedColumn |-> CachedColumn(db, tableName, name),
     kept |-> CachesKept(db, r.db),
     same |-> r.db = db]

CatalogInit ==
    /\ db = newDB
    /\ ret = [op |-> "none"]

FindTableStep ==
    /\ ~Crashed
    /\ \E name \in TableNameInputs, failAt \in 0..MaxFailAt :
        \E r \in {FindTable(db, name, <<>>, failAt, 0)} :
            /\ db' = r.db
            /\ ret' = Observed("FindTable", name, <<>>, r)

\* DB.FindColumn: FindTable, then Table.FindColumn on the Table found.
DBFindColumn(d, tableName, columnName, calls, failAt) ==
    Eval(FindTable(d, tableName, calls, failAt, 0), LAMBDA t :
    IF t.err # "" THEN t
    ELSE FindColumn(t.db, t.table, columnName, t.calls, failAt))

\* A call of Table.FindColumn on a Table that FindTable returned earlier is
\* this step too: the Table is in db.tables, and FindTable returns it.
FindColumnOf(inputs) ==
    /\ ~Crashed
    /\ \E in \in inputs, failAt \in 0..MaxFailAt :
        \E r \in {DBFindColumn(db, in[1], in[2], <<>>, failAt)} :
            /\ db' = r.db
            /\ ret' = Observed("FindColumn", in[1], in[2], r)

FindColumnStep == FindColumnOf(ColumnInputs)

\* DB.FindColumn calls with dotted names.
PathNext == FindColumnOf(PathInputs) /\ UNCHANGED <<insertVars, sendVars, codecVars, lifeVars, raceVars>>

CatalogNext ==
    \/ FindTableStep /\ UNCHANGED <<insertVars, sendVars, codecVars, lifeVars, raceVars>>
    \/ FindColumnStep /\ UNCHANGED <<insertVars, sendVars, codecVars, lifeVars, raceVars>>

\* C3: a FindTable of a name that db.tables holds, and a FindColumn of a
\* (dotted) name that the columns of its table hold, return the cached
\* instance, make no native call and resolve nothing anew; every instance a
\* call returns is then the cached one of its name, and no call removes or
\* replaces a cached instance.
C3_CachedInstance ==
    /\ (ret.op = "FindTable" /\ ret.cachedTable # NilTable)
       => /\ ret.err = ""
          /\ ret.table = ret.cachedTable
          /\ Len(ret.calls) = 0
          /\ ret.same
    /\ (ret.op = "FindColumn" /\ ret.cachedColumn # ColumnRef(NilColumn))
       => /\ ret.err = ""
          /\ ColumnRef(ret.column) = ret.cachedColumn
          /\ Len(ret.calls) = 0
          /\ ret.same
    /\ (ret.op = "FindTable" /\ ret.err = "")
       => CachedTable(db, ret.tableName) = ret.table
    /\ (ret.op = "FindColumn" /\ ret.err = "")
       => CachedColumn(db, ret.tableName, ret.name) = ColumnRef(ret.column)
    /\ ret.op \in {"FindTable", "FindColumn"} => ret.kept

\* C3's case: a dotted column name was looked up a second time.
C3_Witness ==
    /\ ret.op = "FindColumn"
    /\ Len(ret.name) > 1
    /\ ret.cachedColumn # ColumnRef(NilColumn)
    /\ ret.err = ""

\* C18: a FindTable call that returns an error leaves no entry of its name
\* in db.tables, and every entry db.tables (and the columns of its tables)
\* held before the call is still there, with the same object.
C18_FailedFindTable ==
    (ret.op = "FindTable" /\ ret.err # "")
    => /\ CachedTable(db, ret.tableName) = NilTable
       /\ ret.kept

\* C18's case: FindTable failed at a native call after it had found the
\* native table, while db.tables held other tables.
C18_Witness ==
    /\ ret.op = "FindTable"
    /\ ret.err # ""
    /\ ~ret.fatal
    /\ Len(ret.calls) > 1
    /\ DOMAIN db.tables # {}

\* C21: every FindTable call returns, with a Table or with an error, also
\* for a table whose key or value refers to the table itself or to a chain
\* of tables that leads back to it: the recursion over the referenced
\* tables does not go on until the stack of the process overflows.
C21_FindTableReturns ==
    ret.op = "FindTable" => ~ret.fatal

----------------------------------------------------------------------------
(* The claims about dotted column names.                                   *)

\* The cached Column of the last segment of a dotted name: each segment is
\* looked up in the table the segment before it refers to.
RECURSIVE LastColumn(_, _, _)
LastColumn(d, tableName, path) ==
    IF Len(path) = 1
    THEN d.tables[tableName].columns[<<path[1]>>]
    ELSE LastColumn(d, d.tables[tableName].columns[<<path[1]>>].valueTable.name, Tail(path))

\* C11: the Column that FindColumn returns for a dotted name has the value
\* type and the reference table (valueTable) of the column of the last
\* segment.
C11_CompositeFromLastSegment ==
    (/\ ret.op = "FindColumn"
     /\ Len(ret.name) > 1
     /\ ret.err = "")
    => /\ ret.column.valueType = LastColumn(db, ret.tableName, ret.name).valueType
       /\ ret.column.valueTable = LastColumn(db, ret.tableName, ret.name).valueTable

\* The vector columns among the segments of a dotted name, by the schema.
RECURSIVE VectorSegments(_, _)
VectorSegments(tableName, path) ==
    IF path = <<>> \/ tableName \notin DOMAIN Schema
    THEN 0
    ELSE IF path[1] \notin DOMAIN Schema[tableName].columns
    THEN 0
    ELSE (IF Schema[tableName].columns[path[1]].dimension > 0 THEN 1 ELSE 0)
         + VectorSegments(Schema[tableName].columns[path[1]].ref_table, Tail(path))

\* C12: the Column that FindColumn returns for a dotted name is a vector
\* exactly when one segment of the name is a vector column; for a name with
\* two vector segments FindColumn returns an error and caches no Column
\* under the name.
C12_VectorFlag ==
    /\ (/\ ret.op = "FindColumn"
        /\ Len(ret.name) > 1
        /\ ret.err = "")
       => ret.column.isVector = (VectorSegments(ret.tableName, ret.name) = 1)
    /\ (/\ ret.op = "FindColumn"
        /\ Len(ret.name) > 1
        /\ VectorSegments(ret.tableName, ret.name) >= 2)
       => /\ ret.err # ""
          /\ CachedColumn(db, ret.tableName, ret.name) = ColumnRef(NilColumn)

\* C12's case: the second vector segment of a name was reached.
C12_Witness ==
    /\ ret.op = "FindColumn"
    /\ ret.name = <<"rv", "w">>
    /\ ret.err = "vector of vector is not supported"

\* The first segment but the last of a dotted name whose column refers to
\* no table, by the schema (0: there is none).
RECURSIVE NonRefSegment(_, _, _)
NonRefSegment(tableName, path, i) ==
    IF Len(path) <= 1 \/ tableName \notin DOMAIN Schema
    THEN 0
    ELSE IF path[1] \notin DOMAIN Schema[tableName].columns
    THEN 0
    ELSE IF Schema[tableName].columns[path[1]].ref_table = NoRef
    THEN i
    ELSE NonRefSegment(Schema[tableName].columns[path[1]].ref_table, Tail(path), i + 1)

ColumnCalls == {"grn_obj_column", "grngo_column_get_value_info"}

\* C13: when a segment but the last of a dotted name is a column that refers
\* to no table, FindColumn returns an error, which is "not table reference"
\* unless a native call failed before; it makes no native call for a later
\* segment or for the whole name, and caches nothing under the dotted name.
C13_NotTableReference ==
    (/\ ret.op = "FindColumn"
     /\ NonRefSegment(ret.tableName, ret.name, 1) > 0)
    => /\ ret.err # ""
       /\ (\A i \in 1..Len(ret.calls) : ret.calls[i].ok) => ret.err = "not table reference"
       /\ \A i \in 1..Len(ret.calls) :
              ret.calls[i].fn \in ColumnCalls
              => \E j \in 1..NonRefSegment(ret.tableName, ret.name, 1) :
                     ret.calls[i].arg[2] = <<ret.name[j]>>
       /\ CachedColumn(db, ret.tableName, ret.name) = ColumnRef(NilColumn)

\* C13's case: the walk stopped at a column that refers to no table.
C13_Witness ==
    /\ ret.op = "FindColumn"
    /\ ret.name = <<"n", "v">>
    /\ ret.err = "not table reference"
    /\ Len(ret.calls) > 0

\* A key, value or column descriptor of the schema that carries a reference
\* together with the type Void.
VoidReference(info) == info.ref_table # NoRef /\ info.data_type = Void

\* C14: every cached Table with a key table has a key type other than Void,
\* every cached Table with a value table has a value type other than Void,
\* every cached Column with a reference table has a value type other than
\* Void; and a table or column whose descriptor carries a reference together
\* with the type Void is an error and is not cached.
C14_NoVoidReference ==
    /\ \A t \in DOMAIN db.tables :
          /\ db.tables[t].keyTable # NilTable => db.tables[t].keyType # Void
          /\ db.tables[t].valueTable # NilTable => db.tables[t].valueType # Void
          /\ \A c \in DOMAIN db.tables[t].columns :
                 db.tables[t].columns[c].valueTable # NilTable
                 => db.tables[t].columns[c].valueType # Void
    /\ \A t \in DOMAIN Schema :
          /\ (VoidReference(Schema[t].key) \/ VoidReference(Schema[t].value))
             => t \notin DOMAIN db.tables
          /\ \A c \in DOMAIN Schema[t].columns :
                 VoidReference(Schema[t].columns[c])
                 => CachedColumn(db, t, <<c>>) = ColumnRef(NilColumn)

----------------------------------------------------------------------------
(* Init, Fin, openCtx, closeCtx, CreateDB, OpenDB and DB.Close.  Each      *)
(* takes the value of initCount and returns [count, err, calls]: the new   *)
(* value of initCount, the error ("" is nil) and the native calls made.    *)

\* The values of initCount the model follows.
MaxInit == 3
\* The handles CreateDB and OpenDB return in one behaviour.
MaxHandles == 2

Counted(n, err, calls) == [count |-> n, err |-> err, calls |-> calls]

Init(n, calls, failAt) ==
    IF n = -1
    THEN Counted(n, "", calls)
    ELSE IF n = 0
    THEN Eval(NativeCall(calls, failAt, "grn_init", "", TRUE), LAMBDA calls1 :
         IF Failed(calls1)
         THEN Counted(n, "grn_init() failed", calls1)
         ELSE Counted(n + 1, "", calls1))
    ELSE Counted(n + 1, "", calls)

\* Fin without its case for initCount = 0.
Fin_Unguarded(n, calls, failAt) ==
    IF n = -1
    THEN Counted(n, "", calls)
    ELSE IF n = 1
    THEN Eval(NativeCall(calls, failAt, "grn_fin", "", TRUE), LAMBDA calls1 :
         IF Failed(calls1)
         THEN Counted(n, "grn_fin() failed", calls1)
         ELSE Counted(n - 1, "", calls1))
    ELSE Counted(n - 1, "", calls)

Fin(n, calls, failAt) ==
    IF n = -1
    THEN Counted(n, "", calls)
    ELSE IF n = 0
    THEN Counted(n, "Groonga is not initialized yet", calls)
    ELSE IF n = 1
    THEN Eval(NativeCall(calls, failAt, "grn_fin", "", TRUE), LAMBDA calls1 :
         IF Failed(calls1)
         THEN Counted(n, "grn_fin() failed", calls1)
         ELSE Counted(n - 1, "", calls1))
    ELSE Counted(n - 1, "", calls)

\* openCtx: err = "" stands for the context it returns.
openCtx(n, calls, failAt) ==
    Eval(Init(n, calls, failAt), LAMBDA i :
    IF i.err # ""
    THEN i
    ELSE
    Eval(NativeCall(i.calls, failAt, "grn_ctx_open", "", TRUE), LAMBDA calls1 :
    IF Failed(calls1)
    THEN Eval(Fin(i.count, calls1, failAt), LAMBDA f :
         Counted(f.count, "grn_ctx_open() failed", f.calls))
    ELSE Counted(i.count, "", calls1)))

\* closeCtx that calls Fin only after a successful grn_ctx_close.
closeCtx_FinOnSuccess(n, calls, failAt) ==
    Eval(NativeCall(calls, failAt, "grn_ctx_close", "", TRUE), LAMBDA calls1 :
    IF Failed(calls1)
    THEN Counted(n, "grn_ctx_close() failed", calls1)
    ELSE Eval(Fin(n, calls1, failAt), LAMBDA f : Counted(f.count, "", f.calls)))

\* closeCtx: Fin is called whatever grn_ctx_close returned, its error dropped.
closeCtx(n, calls, failAt) ==
    Eval(NativeCall(calls, failAt, "grn_ctx_close", "", TRUE), LAMBDA calls1 :
    Eval(Fin(n, calls1, failAt), LAMBDA f :
    Counted(f.count, IF Failed(calls1) THEN "grn_ctx_close() failed" ELSE "", f.calls)))

CreateDB(n, calls, failAt) ==
    Eval(openCtx(n, calls, failAt), LAMBDA c :
    IF c.err # ""
    THEN c
    ELSE
    Eval(NativeCall(c.calls, failAt, "grn_db_create", "", TRUE), LAMBDA calls1 :
    IF Failed(calls1)
    THEN Eval(closeCtx(c.count, calls1, failAt), LAMBDA x :
         Counted(x.count, "grn_db_create() failed", x.calls))
    ELSE Counted(c.count, "", calls1)))

OpenDB(n, calls, failAt) ==
    Eval(openCtx(n, calls, failAt), LAMBDA c :
    IF c.err # ""
    THEN c
    ELSE
    Eval(NativeCall(c.calls, failAt, "grn_db_open", "", TRUE), LAMBDA calls1 :
    IF Failed(calls1)
    THEN Eval(closeCtx(c.count, calls1, failAt), LAMBDA x :
         Counted(x.count, "grn_db_open() failed", x.calls))
    ELSE Counted(c.count, "", calls1)))

\* DB.Close: it closes the object and the context, and leaves db.tables as
\* it is.
Close(n, calls, failAt) ==
    Eval(NativeCall(calls, failAt, "grn_obj_close", "", TRUE), LAMBDA calls1 :
    Eval(closeCtx(n, calls1, failAt), LAMBDA x :
    IF Failed(calls1)
    THEN Counted(x.count, "grn_obj_close() failed", x.calls)
    ELSE x))

----------------------------------------------------------------------------
(* The life of the handles: Init, Fin and DisableInitCount called by the   *)
(* program, CreateDB and OpenDB and Close of an open handle; and FindTable *)
(* on an open or a closed handle.  A handle is [state, db, stale]: stale is   *)
(* the history of the Tables db.tables held when Close returned.           *)

\* The tables looked up on the handles.
HandleTableInputs == {"A", "N"}

newHandle == [state |-> "open", db |-> newDB, stale |-> {}]

OpenHandles == {h \in DOMAIN handles : handles[h].state = "open"}

\* Every grn_init and grn_fin among the calls succeeded.
InitFinOk(calls) ==
    \A i \in 1..Len(calls) : calls[i].fn \in {"grn_init", "grn_fin"} => calls[i].ok

\* What a call got and returned; before is initCount before the call.
LifeObserved(op, h, r) ==
    [op |-> op, handle |-> h, before |-> initCount, err |-> r.err, calls |-> r.calls,
     fatal |-> FALSE, closed |-> FALSE, table |-> NilTable, stale |-> {}]

LifeInit ==
    /\ initCount = 0
    /\ handles = <<>>
    /\ disabled = FALSE
    /\ assumed = TRUE
    /\ ret = [op |-> "none"]

InitStep ==
    /\ ~Crashed
    /\ initCount < MaxInit
    /\ \E failAt \in 0..MaxFailAt :
        \E r \in {Init(initCount, <<>>, failAt)} :
            /\ initCount' = r.count
            /\ ret' = LifeObserved("Init", 0, r)
    /\ assumed' = FALSE
    /\ UNCHANGED <<handles, disabled>>

FinStep ==
    /\ ~Crashed
    /\ \E failAt \in 0..MaxFailAt :
        \E r \in {Fin(initCount, <<>>, failAt)} :
            /\ initCount' = r.count
            /\ ret' = LifeObserved("Fin", 0, r)
    /\ assumed' = FALSE
    /\ UNCHANGED <<handles, disabled>>

DisableInitCount ==
    /\ ~Crashed
    /\ initCount' = -1
    /\ disabled' = TRUE
    /\ assumed' = FALSE
    /\ ret' = LifeObserved("DisableInitCount", 0, Counted(-1, "", <<>>))
    /\ UNCHANGED handles

CreateDBStep ==
    /\ ~Crashed
    /\ initCount < MaxInit
    /\ Len(handles) < MaxHandles
    /\ \E failAt \in 0..MaxFailAt :
        \E r \in {CreateDB(initCount, <<>>, failAt)} :
            /\ initCount' = r.count
            /\ handles' = IF r.err = "" THEN Append(handles, newHandle) ELSE handles
            /\ assumed' = (assumed /\ InitFinOk(r.calls))
            /\ ret' = LifeObserved("CreateDB", 0, r)
    /\ UNCHANGED disabled

OpenDBStep ==
    /\ ~Crashed
    /\ initCount < MaxInit
    /\ Len(handles) < MaxHandles
    /\ \E failAt \in 0..MaxFailAt :
        \E r \in {OpenDB(initCount, <<>>, failAt)} :
            /\ initCount' = r.count
            /\ handles' = IF r.err = "" THEN Append(handles, newHandle) ELSE handles
            /\ assumed' = (assumed /\ InitFinOk(r.calls))
            /\ ret' = LifeObserved("OpenDB", 0, r)
    /\ UNCHANGED disabled

\* Close of a handle that is open; the object and the context are gone
\* after it, whatever it returns.
CloseStep ==
    /\ ~Crashed
    /\ \E h \in OpenHandles, failAt \in 0..MaxFailAt :
        \E r \in {Close(initCount, <<>>, failAt)} :
            /\ initCount' = r.count
            /\ handles' = [handles EXCEPT
                   ![h].state = "closed",
                   ![h].stale = {TableRef(handles[h].db.tables[t]) :
                                    t \in DOMAIN handles[h].db.tables}]
            /\ assumed' = (assumed /\ InitFinOk(r.calls))
            /\ ret' = LifeObserved("Close", h, r)
    /\ UNCHANGED disabled

\* FindTable on a handle.  On a closed handle a name that db.tables does
\* not hold takes FindTable to native calls on a context that was freed:
\* the process may end there, or the calls may succeed or fail.
HandleFindTableStep ==
    /\ ~Crashed
    /\ \E h \in DOMAIN handles, name \in HandleTableInputs,
          failAt \in 0..MaxFailAt, survives \in BOOLEAN :
        \E r \in {FindTable(handles[h].db, name, <<>>, failAt, 0)} :
            /\ survives \/ (handles[h].state = "closed" /\ name \notin DOMAIN handles[h].db.tables)
            /\ handles' = IF survives THEN [handles EXCEPT ![h].db = r.db] ELSE handles
            /\ ret' = IF survives
                      THEN [LifeObserved("DB.FindTable", h, r) EXCEPT
                                !.closed = (handles[h].state = "closed"),
                                !.table = r.table,
                                !.stale = handles[h].stale]
                      ELSE [LifeObserved("DB.FindTable", h, Counted(initCount, "fatal error", <<>>))
                                EXCEPT !.fatal = TRUE, !.closed = TRUE]
    /\ UNCHANGED <<initCount, disabled, assumed>>

LifeNext ==
    \/ InitStep /\ UNCHANGED <<catalogVars, insertVars, sendVars, codecVars, raceVars>>
    \/ FinStep /\ UNCHANGED <<catalogVars, insertVars, sendVars, codecVars, raceVars>>
    \/ DisableInitCount /\ UNCHANGED <<catalogVars, insertVars, sendVars, codecVars, raceVars>>
    \/ CreateDBStep /\ UNCHANGED <<catalogVars, insertVars, sendVars, codecVars, raceVars>>
    \/ OpenDBStep /\ UNCHANGED <<catalogVars, insertVars, sendVars, codecVars, raceVars>>
    \/ CloseStep /\ UNCHANGED <<catalogVars, insertVars, sendVars, codecVars, raceVars>>

\* The handles and their caches: CreateDB, FindTable and Close.
HandleNext ==
    \/ CreateDBStep /\ UNCHANGED <<catalogVars, insertVars, sendVars, codecVars, raceVars>>
    \/ CloseStep /\ UNCHANGED <<catalogVars, insertVars, sendVars, codecVars, raceVars>>
    \/ HandleFindTableStep /\ UNCHANGED <<catalogVars, insertVars, sendVars, codecVars, raceVars>>

\* C15: after DB.Close has returned, a FindTable on the handle does not
\* return a Table that db.tables held when Close returned.
C15_CloseInvalidatesCaches ==
    (/\ ret.op = "DB.FindTable"
     /\ ret.closed
     /\ ret.err = "")
    => ret.table \notin ret.stale

\* C19: Init calls grn_init exactly when initCount is 0, and moves the count
\* from 0 to 1 exactly when that call succeeds; Fin calls grn_fin exactly
\* when initCount is 1, and moves the count from 1 to 0 exactly when that
\* call succeeds; at other counts Init adds one and Fin takes one away
\* without a native call, but Fin at 0 returns an error and leaves 0; a
\* failing grn_init or grn_fin leaves the count as it was; the count is
\* negative only after DisableInitCount, and then Init and Fin return nil,
\* make no native call and leave the count.
C19_InitCount ==
    /\ disabled <=> initCount = -1
    /\ initCount >= -1
    /\ ret.op = "Init" =>
          CASE ret.before = -1 ->
                  ret.err = "" /\ ret.calls = <<>> /\ initCount = -1
            [] ret.before = 0 ->
                  /\ Len(ret.calls) = 1
                  /\ ret.calls[1].fn = "grn_init"
                  /\ ret.calls[1].ok => (ret.err = "" /\ initCount = 1)
                  /\ ~ret.calls[1].ok => (ret.err # "" /\ initCount = 0)
            [] OTHER ->
                  ret.err = "" /\ ret.calls = <<>> /\ initCount = ret.before + 1
    /\ ret.op = "Fin" =>
          CASE ret.before = -1 ->
                  ret.err = "" /\ ret.calls = <<>> /\ initCount = -1
            [] ret.before = 0 ->
                  ret.err # "" /\ ret.calls = <<>> /\ initCount = 0
            [] ret.before = 1 ->
                  /\ Len(ret.calls) = 1
                  /\ ret.calls[1].fn = "grn_fin"
                  /\ ret.calls[1].ok => (ret.err = "" /\ initCount = 0)
                  /\ ~ret.calls[1].ok => (ret.err # "" /\ initCount = 1)
            [] OTHER ->
                  ret.err = "" /\ ret.calls = <<>> /\ initCount = ret.before - 1

\* C19's case: Fin was called when the count had come back to 0.
C19_Witness ==
    /\ ret.op = "Fin"
    /\ ret.before = 0
    /\ ret.err = "Groonga is not initialized yet"
    /\ ~disabled
    /\ Len(handles) > 0

\* C20: while the counter is not disabled, only CreateDB, OpenDB and Close
\* have moved it and every grn_init and grn_fin has succeeded, initCount is
\* the number of handles that were opened and not closed; a failed CreateDB
\* or OpenDB leaves initCount as it was, and the Close of the last open
\* handle calls grn_fin.
C20_CountIsOpenHandles ==
    assumed =>
       /\ initCount = Cardinality(OpenHandles)
       /\ (ret.op \in {"CreateDB", "OpenDB"} /\ ret.err # "") => initCount = ret.before
       /\ (ret.op = "Close" /\ OpenHandles = {})
          => \E i \in 1..Len(ret.calls) : ret.calls[i].fn = "grn_fin" /\ ret.calls[i].ok

\* C20's case: the last of two handles was closed by a Close that failed.
C20_Witness ==
    /\ assumed
    /\ ret.op = "Close"
    /\ ret.err # ""
    /\ Len(handles) = MaxHandles
    /\ OpenHandles = {}

----------------------------------------------------------------------------
(* Table.CreateColumn.  The value of the "flags" option is the sequence of *)
(* its flag words and of the pipes between them: the Go string             *)
(* "|WITH_SECTION" is <<"|", "WITH_SECTION">>.                             *)

ScalarColumn == 0
VectorColumn == 1
IndexColumn == 2
NoCompression == 0
ZlibCompression == 1
LzoCompression == 2

\* The value types CreateColumn takes without a look for a table.
BuiltinTypeNames ==
    {"Bool", "Int8", "Int16", "Int32", "Int64", "UInt8", "UInt16", "UInt32", "UInt64",
     "Float", "Time", "ShortText", "Text", "LongText", "TokyoGeoPoint", "WGS84GeoPoint"}

\* The switch on options.ColumnType: optionsMap["flags"] = ...
columnTypeFlags(options) ==
    CASE options.ColumnType = ScalarColumn -> <<"COLUMN_SCALAR">>
      [] options.ColumnType = VectorColumn -> <<"COLUMN_VECTOR">>
      [] options.ColumnType = IndexColumn -> <<"COLUMN_INDEX">>

\* The switch on options.CompressionType: it assigns optionsMap["flags"].
compressionFlags(options, flags) ==
    CASE options.CompressionType = NoCompression -> flags
      [] options.CompressionType = ZlibCompression -> <<"|", "COMPRESS_ZLIB">>
      [] options.CompressionType = LzoCompression -> <<"|", "COMRESS_LZO">>

\* optionsMap["flags"] += ... for the three modifiers.
modifierFlags(options, flags) ==
    flags \o (IF options.WithSection THEN <<"|", "WITH_SECTION">> ELSE <<>>)
          \o (IF options.WithWeight THEN <<"|", "WITH_WEIGHT">> ELSE <<>>)
          \o (IF options.WithPosition THEN <<"|", "WITH_POSITION">> ELSE <<>>)

\* The flags of CreateColumn, or its error for an undefined option value.
columnFlags(options) ==
    IF options.ColumnType \notin {ScalarColumn, VectorColumn, IndexColumn}
    THEN [flags |-> <<>>, err |-> "undefined column type"]
    ELSE IF options.CompressionType \notin {NoCompression, ZlibCompression, LzoCompression}
    THEN [flags |-> <<>>, err |-> "undefined compression type"]
    ELSE [flags |-> modifierFlags(options, compressionFlags(options, columnTypeFlags(options))),
          err |-> ""]

\* The command CreateColumn hands to QueryEx.
NoCommand == [name |-> "", options |-> <<>>]
columnCreate(tableName, name, valueType, options, flags) ==
    [name |-> "column_create",
     options |-> IF options.Source # ""
                 THEN [table |-> tableName, name |-> name, type |-> valueType,
                       flags |-> flags, source |-> options.Source]
                 ELSE [table |-> tableName, name |-> name, type |-> valueType,
                       flags |-> flags]]

\* CreateColumn returns [db, column, err, calls, command]; command is what
\* QueryEx was given, reply what it returned: "true", "false" or an error.
Created(d, col, err, calls, command) ==
    [db |-> d, column |-> col, err |-> err, calls |-> calls, command |-> command]

CreateColumn(d, tref, name, valueType, options, reply, failAt) ==
    Eval(IF valueType \in BuiltinTypeNames
         THEN Returns(d, NilTable, NilColumn, "", <<>>)
         ELSE FindTable(d, valueType, <<>>, failAt, 0),
         LAMBDA type :
    IF type.err # ""
    THEN Created(type.db, NilColumn, "unsupported value type: valueType = " \o valueType,
                 type.calls, NoCommand)
    ELSE
    Eval(columnFlags(options), LAMBDA f :
    IF f.err # ""
    THEN Created(type.db, NilColumn, f.err, type.calls, NoCommand)
    ELSE
    Eval(columnCreate(tref.name, name, valueType, options, f.flags), LAMBDA command :
    IF reply = "error"
    THEN Created(type.db, NilColumn, "QueryEx() failed", type.calls, command)
    ELSE IF reply # "true"
    THEN Created(type.db, NilColumn, "column_create failed: name = <" \o name \o ">",
                 type.calls, command)
    ELSE
    Eval(FindColumn(type.db, tref, <<name>>, type.calls, failAt), LAMBDA found :
    Created(found.db, found.column, found.err, found.calls, command)))))

\* The options of the calls: the defined values of the two enumerations and
\* one undefined value of each.
ColumnOptionsInputs ==
    [ColumnType : 0..3, CompressionType : 0..3,
     WithSection : BOOLEAN, WithWeight : BOOLEAN, WithPosition : BOOLEAN,
     Source : {"", "s"}]

\* The columns created in table A, as <<name, valueType>>: the native
\* schema holds them once column_create has returned true.
CreateInputs == {<<"n", "Int32">>, <<"r", "B">>, <<"x", "X">>}

\* Table A was found on the handle.
CreateInit ==
    /\ db = FindTable(newDB, "A", <<>>, 0, 0).db
    /\ ret = [op |-> "none"]

\* One CreateColumn call.
CreateColumnStep ==
    /\ ret.op = "none"
    /\ \E in \in CreateInputs, options \in ColumnOptionsInputs,
          reply \in {"true", "false", "error"}, failAt \in 0..MaxFailAt :
        \E r \in {CreateColumn(db, TableRef(db.tables["A"]), in[1], in[2], options, reply, failAt)} :
            /\ db' = r.db
            /\ ret' = [op |-> "CreateColumn", name |-> in[1], valueType |-> in[2],
                       options |-> options, err |-> r.err, calls |-> r.calls,
                       command |-> r.command, column |-> r.column, fatal |-> FALSE]

CreateNext ==
    CreateColumnStep /\ UNCHANGED <<insertVars, sendVars, codecVars, lifeVars, raceVars>>

\* strings.Split(flags, "|"): the fields between the pipes.
RECURSIVE SplitPipes(_, _, _)
SplitPipes(tokens, field, fields) ==
    IF tokens = <<>>
    THEN Append(fields, field)
    ELSE IF Head(tokens) = "|"
    THEN SplitPipes(Tail(tokens), "", Append(fields, field))
    ELSE SplitPipes(Tail(tokens), field \o Head(tokens), fields)

ColumnTypeFlags == {"COLUMN_SCALAR", "COLUMN_VECTOR", "COLUMN_INDEX"}

\* The flags the claim expects after the column-type flag.
ExpectedFlags(options) ==
    (CASE options.CompressionType = ZlibCompression -> {"COMPRESS_ZLIB"}
       [] options.CompressionType = LzoCompression -> {"COMPRESS_LZO"}
       [] OTHER -> {})
    \cup (IF options.WithSection THEN {"WITH_SECTION"} ELSE {})
    \cup (IF options.WithWeight THEN {"WITH_WEIGHT"} ELSE {})
    \cup (IF options.WithPosition THEN {"WITH_POSITION"} ELSE {})

\* C16: the flags that CreateColumn forwards to column_create are a list
\* separated by pipes whose first field is the column-type flag of the
\* options, the only column-type flag of the list, and whose other fields
\* are the compression flag, if a compression is selected, and the flags of
\* the enabled modifiers.
C16_FlagsList ==
    (ret.op = "CreateColumn" /\ ret.command # NoCommand)
    => \E fields \in {SplitPipes(ret.command.options.flags, "", <<>>)} :
          /\ <<fields[1]>> = columnTypeFlags(ret.options)
          /\ \A i \in 2..Len(fields) : fields[i] \notin ColumnTypeFlags
          /\ {fields[i] : i \in 2..Len(fields)} = ExpectedFlags(ret.options)
          /\ Len(fields) = 1 + Cardinality(ExpectedFlags(ret.options))

----------------------------------------------------------------------------
(* FindTable calls of several goroutines on one handle.  FindTable takes   *)
(* no lock.  It reads db.tables once, at its start, and writes it once, in *)
(* its last statement; for a table that refers to no other table nothing   *)
(* in between touches the handle's maps, so a call is two steps: the look  *)
(* into db.tables, and, after a miss, the rest.  Two goroutines that are   *)
(* both past a miss write the map without synchronization: a data race,    *)
(* after which the Go runtime may stop the program.                        *)

\* The goroutines; each makes one FindTable call.
MaxProcs == 2

\* The tables looked up; they refer to no other table.
RaceTableInputs == {"A", "N"}

Idle == [pc |-> "idle", name |-> "", table |-> NilTable, err |-> "",
         hit |-> FALSE, raced |-> FALSE]

RaceInit ==
    /\ db = newDB
    /\ procs = [p \in 1..MaxProcs |-> Idle]
    /\ ret = [op |-> "none"]

\* if table, ok := db.tables[name]; ok { return table, nil }
\* raced: another call of the same name was past its miss at that moment.
RaceCheck(p) ==
    /\ ~Crashed
    /\ procs[p].pc = "idle"
    /\ \E name \in RaceTableInputs :
        \E r \in {FindTable(db, name, <<>>, 0, 0)}, raced \in
              {\E q \in DOMAIN procs : q # p /\ procs[q].pc = "missed" /\ procs[q].name = name} :
            procs' = [procs EXCEPT ![p] =
                IF name \in DOMAIN db.tables
                THEN [pc |-> "done", name |-> name, table |-> r.table, err |-> r.err,
                      hit |-> TRUE, raced |-> raced]
                ELSE [pc |-> "missed", name |-> name, table |-> NilTable, err |-> "",
                      hit |-> FALSE, raced |-> raced]]
    /\ UNCHANGED <<db, ret>>

\* The rest of FindTable after the miss, to db.tables[name] = table.
RaceInsert(p) ==
    /\ ~Crashed
    /\ procs[p].pc = "missed"
    /\ \E failAt \in 0..MaxFailAt :
        \E r \in {findTableMiss(db, procs[p].name, <<>>, failAt, 0)} :
            /\ db' = r.db
            /\ procs' = [procs EXCEPT ![p].pc = "done", ![p].table = r.table, ![p].err = r.err]
    /\ UNCHANGED ret

\* The runtime finds two writers of db.tables and stops the program.
RaceCrash ==
    /\ ~Crashed
    /\ \E p, q \in DOMAIN procs :
          p # q /\ procs[p].pc = "missed" /\ procs[q].pc = "missed"
    /\ ret' = [op |-> "FindTable", fatal |-> TRUE,
               err |-> "fatal error: concurrent map writes"]
    /\ UNCHANGED <<db, procs>>

RaceNext ==
    \/ \E p \in 1..MaxProcs :
          RaceCheck(p) /\ UNCHANGED <<insertVars, sendVars, codecVars, lifeVars>>
    \/ \E p \in 1..MaxProcs :
          RaceInsert(p) /\ UNCHANGED <<insertVars, sendVars, codecVars, lifeVars>>
    \/ RaceCrash /\ UNCHANGED <<insertVars, sendVars, codecVars, lifeVars>>

\* The calls of a name that have returned a Table.
Returned(name) ==
    {p \in DOMAIN procs : procs[p].pc = "done" /\ procs[p].name = name /\ procs[p].err = ""}

\* C17 as stated: FindTable calls of one name that ran on one handle
\* without synchronization, interleaved in any way, have all returned the
\* same Table instance, and db.tables holds that instance under the name.
C17_ConcurrentSameInstance ==
    \A name \in RaceTableInputs :
        \A p, q \in Returned(name) :
            /\ procs[p].table = procs[q].table
            /\ CachedTable(db, name) = procs[p].table

\* C17: FindTable calls of one name of which none started while another
\* was between its look into db.tables and its insert have all returned the
\* same Table instance, the one db.tables holds.  Calls that were
\* interleaved there have each made and returned a Table of their own, so
\* two of them return distinct instances; db.tables then holds the one that
\* was inserted last; a call that found the name in db.tables has returned
\* an instance that one of the others made.
C17_SerialisedSameInstance ==
    \A name \in RaceTableInputs :
        /\ (\A p \in DOMAIN procs : procs[p].name = name => ~procs[p].raced)
           => \A p, q \in Returned(name) :
                 /\ procs[p].table = procs[q].table
                 /\ CachedTable(db, name) = procs[p].table
        /\ \A p, q \in Returned(name) :
              (p # q /\ ~procs[p].hit /\ ~procs[q].hit)
              => procs[p].table # procs[q].table
        /\ \A p \in Returned(name) :
              /\ procs[p].hit
                 => \E q \in Returned(name) : ~procs[q].hit /\ procs[q].table = procs[p].table
              /\ CachedTable(db, name).gen >= procs[p].table.gen
        /\ Returned(name) # {}
           => \E q \in Returned(name) : ~procs[q].hit /\ procs[q].table = CachedTable(db, name)

\* C17's case: two calls of one name were interleaved between the look into
\* db.tables and the insert, and both have returned.
C17_Witness ==
    /\ procs[1].pc = "done" /\ procs[2].pc = "done"
    /\ procs[1].name = procs[2].name
    /\ procs[1].err = "" /\ procs[2].err = ""
    /\ ~procs[1].hit /\ ~procs[2].hit
    /\ procs[2].raced

----------------------------------------------------------------------------
(* Row insertion: one Table of some key type, and InsertRow calls on it.   *)

\* The history entry of a Go key, if it was inserted before.
Seen(key) == {i \in 1..Len(firstId) : SameValue(firstId[i].key, key)}

InsertInit ==
    /\ table \in [name : {"T"}, keyType : DataType]
    /\ rows = <<>>
    /\ firstId = <<>>
    /\ ret = [op |-> "none"]

InsertRowStep ==
    \E kind \in KeyKinds, ok \in BOOLEAN : \E key \in KeyInputs(kind) :
        LET r == InsertRow(table, key, rows, ok)
            seen == Seen(key)
        IN  /\ rows' = r.rows
            /\ firstId' = IF r.err = "" /\ seen = {}
                          THEN Append(firstId, [key |-> key, id |-> r.id])
                          ELSE firstId
            /\ ret' = [op |-> "InsertRow", key |-> key, inserted |-> r.inserted,
                       id |-> r.id, err |-> r.err, calls |-> r.calls,
                       seenBefore |-> seen # {},
                       prevId |-> IF seen = {} THEN NilID
                                  ELSE firstId[CHOOSE i \in seen : TRUE].id,
                       created |-> r.rows # rows]
            /\ UNCHANGED table

InsertNext == InsertRowStep /\ UNCHANGED <<catalogVars, sendVars, codecVars, lifeVars, raceVars>>

\* The Go key variant a key type takes: the table of src/grngo.go:18-26,
\* with the key types CreateTable accepts (ShortText is the one text type).
Corresponds(kind, keyType) ==
    \/ kind = "nil" /\ keyType = Void
    \/ kind = "bool" /\ keyType = Bool
    \/ kind = "int64" /\ keyType \in IntTypes
    \/ kind = "float64" /\ keyType = Float
    \/ kind = "GeoPoint" /\ keyType \in GeoTypes
    \/ kind = "[]byte" /\ keyType = ShortText

KeyVariants == {"nil", "bool", "int64", "float64", "GeoPoint", "[]byte"}

NativeFailed(r) == \E i \in 1..Len(r.calls) : ~r.calls[i].ok

\* C1: on a keyed table, an InsertRow of a key of the matching variant whose
\* native call does not fail returns (true, id, nil) when the key was not
\* inserted before, and (false, id, nil) with the id of the first insertion
\* when it was.
C1_FirstTrueThenFalseSameId ==
    (/\ ret.op = "InsertRow"
     /\ table.keyType # Void
     /\ Corresponds(ret.key.kind, table.keyType)
     /\ ~NativeFailed(ret))
    => /\ ret.err = ""
       /\ ret.id # NilID
       /\ ret.inserted = ~ret.seenBefore
       /\ ret.seenBefore => ret.id = ret.prevId

\* C2: an InsertRow of a key whose variant does not correspond to the key
\* type of the table returns (false, NilID, "key type conflict"), issues no
\* native call and creates no row.
C2_KeyTypeConflict ==
    (/\ ret.op = "InsertRow"
     /\ ret.key.kind \in KeyVariants
     /\ ~Corresponds(ret.key.kind, table.keyType))
    => /\ ret.err = "key type conflict"
       /\ ret.inserted = FALSE
       /\ ret.id = NilID
       /\ ret.calls = <<>>
       /\ ~ret.created

\* C2's case: a float64 key was inserted into a ShortText table.
C2_Witness ==
    /\ ret.op = "InsertRow"
    /\ ret.key.kind = "float64"
    /\ table.keyType = ShortText
    /\ ret.err = "key type conflict"

----------------------------------------------------------------------------
(* The value codec: Column.SetValue and Column.GetValue on one row of one  *)
(* Column.  `cell` is what the native column holds for the row:            *)
(* [layout, v], v being a grn_bool (0 or 1), the bits of an integer        *)
(* (zero-extended to 64), a number that stands for a double, the bytes of  *)
(* a text, a grn_geo_point [latitude, longitude], or a sequence of these   *)
(* for a vector column.                                                    *)

\* Bytes in a text value.
MaxTextLen == 1
\* Elements in a vector value.
MaxVecLen == 1

GRN_FALSE == 0
GRN_TRUE == 1
\* The tag of a native call that is passed none.
NoTag == "none"

GoValue(kind, v) == [kind |-> kind, v |-> v]
\* An element of a [][]byte: a []byte, which may be nil.
Bytes(s) == [isNil |-> FALSE, v |-> s]
NilBytes == [isNil |-> TRUE, v |-> <<>>]

\* The Go type of the values of a column: what GetValue returns for it.
scalarKind(valueType) ==
    CASE valueType = Bool -> "bool"
      [] valueType \in IntTypes -> "int64"
      [] valueType = Float -> "float64"
      [] valueType \in TextTypes -> "[]byte"
      [] valueType \in GeoTypes -> "GeoPoint"
      [] OTHER -> "none"
KindOf(col) ==
    IF scalarKind(col.valueType) = "none" THEN "none"
    ELSE IF col.isVector THEN "[]" \o scalarKind(col.valueType)
    ELSE scalarKind(col.valueType)

\* native: the layout of the values of a column.  The text types share
\* one layout, the two geo point types are told apart.
LayoutOf(valueType) ==
    CASE valueType = Bool -> "bool"
      [] valueType \in IntTypes -> valueType
      [] valueType = Float -> "float"
      [] valueType \in TextTypes -> "text"
      [] valueType \in GeoTypes -> valueType
      [] OTHER -> "opaque"

\* native: the bits an integer column of a type keeps of a value, and the
\* int64 it hands out for them.
Raw(valueType, v) ==
    CASE valueType \in {Int8, UInt8} -> uint8_t(v)
      [] valueType \in {Int16, UInt16} -> uint16_t(v)
      [] valueType \in {Int32, UInt32} -> uint32_t(v)
      [] OTHER -> v
Widen(valueType, raw) ==
    CASE valueType = Int8 -> int8_t(raw)
      [] valueType = Int16 -> int16_t(raw)
      [] valueType = Int32 -> int32_t(raw)
      [] valueType = UInt8 -> uint8_t(raw)
      [] valueType = UInt16 -> uint16_t(raw)
      [] valueType = UInt32 -> uint32_t(raw)
      [] OTHER -> raw

Stored(content) == [layout |-> "value", v |-> content]
\* What a native setter leaves when the column is not of its layout.
Garbage == [layout |-> "garbage", v |-> 0]

ElemDefault(valueType) ==
    CASE valueType = Bool -> GRN_FALSE
      [] valueType \in IntTypes -> I64(0)
      [] valueType = Float -> 0
      [] valueType \in TextTypes -> <<>>
      [] valueType \in GeoTypes -> [latitude |-> 0, longitude |-> 0]
      [] OTHER -> 0
\* native: the value of a row that was never set.
DefaultContent(col) == IF col.isVector THEN <<>> ELSE ElemDefault(col.valueType)

----------------------------------------------------------------------------
(* The native setters.                                                     *)

\* native: grngo_column_set_*(ctx, column, id, value) for a setter that
\* writes values of a layout.  It fails when the environment fails it; on a
\* column of another layout its effect is not defined: it fails, or it
\* succeeds and leaves garbage.
grngo_column_set(col, c, layout, isVector, content, ok) ==
    IF ~ok
    THEN [ok |-> FALSE, cell |-> c]
    ELSE IF LayoutOf(col.valueType) = layout /\ col.isVector = isVector
    THEN [ok |-> TRUE, cell |-> Stored(content)]
    ELSE [ok |-> TRUE, cell |-> Garbage]

\* native: whether an int64 element fits the integer type of a vector
\* setter: "a value outside the native width's range during Set is a
\* native-layer failure".
NativeFits(valueType, v) ==
    /\ Widen(valueType, Raw(valueType, v)) = v
    /\ valueType = UInt64 => v[4] < 32768

\* native: grngo_column_set_int*_vector reads the int64 elements of the Go
\* slice and narrows each.
grngo_column_set_int_vector(col, c, valueType, values, ok) ==
    IF \E i \in 1..Len(values) : ~NativeFits(valueType, values[i])
    THEN [ok |-> FALSE, cell |-> c]
    ELSE grngo_column_set(col, c, valueType, TRUE,
                          [i \in 1..Len(values) |-> Raw(valueType, values[i])], ok)

\* native: the geo point setters write the layout of their type tag.
GeoLayout(tag) == IF tag \in GeoTypes THEN tag ELSE "invalid"

----------------------------------------------------------------------------
(* Column.SetValue and the set functions.  Each returns [err, calls,      *)
(* cell]: the Go error ("" is nil), the native calls issued and the cell   *)
(* afterwards.                                                             *)

SetCall(fn, tag, ok) == [fn |-> fn, tag |-> tag, ok |-> ok]

valueTypeConflict(c) == [err |-> "value type conflict", calls |-> <<>>, cell |-> c]

\* The tail of every set function: the result of the native call is
\* tested against GRN_TRUE.
setNative(fn, tag, r, failed) ==
    [err |-> IF r.ok THEN "" ELSE failed,
     calls |-> <<SetCall(fn, tag, r.ok)>>,
     cell |-> r.cell]

setBool(col, c, value, ok) ==
    IF (col.valueType # Bool) \/ col.isVector
    THEN valueTypeConflict(c)
    ELSE setNative("grngo_column_set_bool", NoTag,
                   grngo_column_set(col, c, "bool", FALSE,
                                    IF value THEN GRN_TRUE ELSE GRN_FALSE, ok),
                   "grngo_column_set_bool() failed")

\* The native setter of one integer type gets the converted value.
setIntOf(col, c, valueType, fn, grnValue, ok) ==
    setNative(fn, NoTag,
              grngo_column_set(col, c, valueType, FALSE, Raw(valueType, grnValue), ok),
              "grngo_column_set_int*() failed")

setInt(col, c, value, ok) ==
    IF col.isVector
    THEN valueTypeConflict(c)
    ELSE CASE col.valueType = Int8 ->
                setIntOf(col, c, Int8, "grngo_column_set_int8", int8_t(value), ok)
           [] col.valueType = Int16 ->
                setIntOf(col, c, Int16, "grngo_column_set_int16", int16_t(value), ok)
           [] col.valueType = Int32 ->
                setIntOf(col, c, Int32, "grngo_column_set_int32", int32_t(value), ok)
           [] col.valueType = Int64 ->
                setIntOf(col, c, Int64, "grngo_column_set_int64", int64_t(value), ok)
           [] col.valueType = UInt8 ->
                setIntOf(col, c, UInt8, "grngo_column_set_uint8", uint8_t(value), ok)
           [] col.valueType = UInt16 ->
                setIntOf(col, c, UInt16, "grngo_column_set_uint16", uint16_t(value), ok)
           [] col.valueType = UInt32 ->
                setIntOf(col, c, UInt32, "grngo_column_set_uint32", uint32_t(value), ok)
           [] col.valueType = UInt64 ->
                setIntOf(col, c, UInt64, "grngo_column_set_uint64", uint64_t(value), ok)
           [] OTHER -> valueTypeConflict(c)

\* C.double(value): a float64 and a double are the same number.
setFloat(col, c, value, ok) ==
    IF (col.valueType # Float) \/ col.isVector
    THEN valueTypeConflict(c)
    ELSE setNative("grngo_column_set_float", NoTag,
                   grngo_column_set(col, c, "float", FALSE, value, ok),
                   "grngo_column_set_float() failed")

\* C.grn_geo_point{C.int(value.Latitude), C.int(value.Longitude)}
grn_geo_point(value) == [latitude |-> value.Latitude, longitude |-> value.Longitude]

\* setGeoPoint with the tag of one geo point type, whatever the column.
setGeoPoint_FixedTag(col, c, value, ok) ==
    IF col.valueType \notin {TokyoGeoPoint, WGS84GeoPoint}
    THEN valueTypeConflict(c)
    ELSE IF col.isVector
    THEN valueTypeConflict(c)
    ELSE setNative("grngo_column_set_geo_point", WGS84GeoPoint,
                   grngo_column_set(col, c, GeoLayout(WGS84GeoPoint), FALSE,
                                    grn_geo_point(value), ok),
                   "grngo_column_set_geo_point() failed")

setGeoPoint(col, c, value, ok) ==
    IF col.valueType \notin {TokyoGeoPoint, WGS84GeoPoint}
    THEN valueTypeConflict(c)
    ELSE IF col.isVector
    THEN valueTypeConflict(c)
    ELSE setNative("grngo_column_set_geo_point", col.valueType,
                   grngo_column_set(col, c, GeoLayout(col.valueType), FALSE,
                                    grn_geo_point(value), ok),
                   "grngo_column_set_geo_point() failed")

setText(col, c, value, ok) ==
    IF col.valueType \notin {ShortText, Text, LongText}
    THEN valueTypeConflict(c)
    ELSE IF col.isVector
    THEN valueTypeConflict(c)
    ELSE setNative("grngo_column_set_text", NoTag,
                   grngo_column_set(col, c, "text", FALSE, value, ok),
                   "grngo_column_set_text() failed")

\* The vector set functions test neither the type of the column nor
\* whether it is a vector column; setIntVector tests the type only.
setBoolVector(col, c, value, ok) ==
    setNative("grngo_column_set_bool_vector", NoTag,
              grngo_column_set(col, c, "bool", TRUE,
                               [i \in 1..Len(value) |->
                                    IF value[i] THEN GRN_TRUE ELSE GRN_FALSE], ok),
              "grngo_column_set_bool_vector() failed")

setIntVectorOf(col, c, valueType, fn, value, ok) ==
    setNative(fn, NoTag, grngo_column_set_int_vector(col, c, valueType, value, ok),
              "grngo_column_set_int*_vector() failed")

setIntVector(col, c, value, ok) ==
    CASE col.valueType = Int8 ->
           setIntVectorOf(col, c, Int8, "grngo_column_set_int8_vector", value, ok)
      [] col.valueType = Int16 ->
           setIntVectorOf(col, c, Int16, "grngo_column_set_int16_vector", value, ok)
      [] col.valueType = Int32 ->
           setIntVectorOf(col, c, Int32, "grngo_column_set_int32_vector", value, ok)
      [] col.valueType = Int64 ->
           setIntVectorOf(col, c, Int64, "grngo_column_set_int64_vector", value, ok)
      [] col.valueType = UInt8 ->
           setIntVectorOf(col, c, UInt8, "grngo_column_set_uint8_vector", value, ok)
      [] col.valueType = UInt16 ->
           setIntVectorOf(col, c, UInt16, "grngo_column_set_uint16_vector", value, ok)
      [] col.valueType = UInt32 ->
           setIntVectorOf(col, c, UInt32, "grngo_column_set_uint32_vector", value, ok)
      [] col.valueType = UInt64 ->
           setIntVectorOf(col, c, UInt64, "grngo_column_set_uint64_vector", value, ok)
      [] OTHER -> valueTypeConflict(c)

setFloatVector(col, c, value, ok) ==
    setNative("grngo_column_set_float_vector", NoTag,
              grngo_column_set(col, c, "float", TRUE, value, ok),
              "grngo_column_set_float_vector() failed")

\* The native side reads the []GeoPoint in place: a GeoPoint and a
\* grn_geo_point are two int32 each, in the same order.
setGeoPointVector(col, c, value, ok) ==
    setNative("grngo_column_set_geo_point_vector", col.valueType,
              grngo_column_set(col, c, GeoLayout(col.valueType), TRUE,
                               [i \in 1..Len(value) |-> grn_geo_point(value[i])], ok),
              "grngo_column_set_geo_point_vector() failed")

\* Each element becomes a grngo_text {ptr, size}, the zero grngo_text for
\* an element without bytes.
setTextVector(col, c, value, ok) ==
    setNative("grngo_column_set_text_vector", NoTag,
              grngo_column_set(col, c, "text", TRUE,
                               [i \in 1..Len(value) |-> value[i].v], ok),
              "grngo_column_set_text_vector() failed")

SetValue(col, c, value, ok) ==
    CASE value.kind = "bool" -> setBool(col, c, value.v, ok)
      [] value.kind = "int64" -> setInt(col, c, value.v, ok)
      [] value.kind = "float64" -> setFloat(col, c, value.v, ok)
      [] value.kind = "GeoPoint" -> setGeoPoint(col, c, value.v, ok)
      [] value.kind = "[]byte" -> setText(col, c, value.v, ok)
      [] value.kind = "[]bool" -> setBoolVector(col, c, value.v, ok)
      [] value.kind = "[]int64" -> setIntVector(col, c, value.v, ok)
      [] value.kind = "[]float64" -> setFloatVector(col, c, value.v, ok)
      [] value.kind = "[]GeoPoint" -> setGeoPointVector(col, c, value.v, ok)
      [] value.kind = "[][]byte" -> setTextVector(col, c, value.v, ok)
      [] OTHER -> [err |-> "unsupported value type: name = <" \o value.kind \o ">",
                   calls |-> <<>>, cell |-> c]

----------------------------------------------------------------------------
(* Column.GetValue and the get functions.  Each gets the content of the    *)
(* cell and the native call that fails (failAt, 0 for none), and returns   *)
(* [value, err, calls].  A native getter call is logged with the type tag  *)
(* it is passed, its destination {ptr, size} (ptr: not NULL; elems: the    *)
(* grngo_text array a text vector getter is passed), and the size it       *)
(* reports (out).                                                          *)

GetCall(fn, tag, ptr, size, elems, ok, out) ==
    [fn |-> fn, tag |-> tag, ptr |-> ptr, size |-> size, elems |-> elems,
     ok |-> ok, out |-> IF ok THEN out ELSE 0]
GetResult(value, err, calls) == [value |-> value, err |-> err, calls |-> calls]

\* A getter of a fixed-size value: one call, the destination a C variable.
getFixed(fn, tag, failAt, value) ==
    IF failAt = 1
    THEN GetResult(GoNil, fn \o "() failed", <<GetCall(fn, tag, TRUE, 1, <<>>, FALSE, 1)>>)
    ELSE GetResult(value, "", <<GetCall(fn, tag, TRUE, 1, <<>>, TRUE, 1)>>)

getBool(content, failAt) ==
    getFixed("grngo_column_get_bool", NoTag, failAt, GoValue("bool", content = GRN_TRUE))

\* getInt with the tag of one integer type, whatever the column.
getInt_Untagged(col, content, failAt) ==
    getFixed("grngo_column_get_int", Int64, failAt, GoValue("int64", Widen(Int64, content)))

\* native: grngo_column_get_int widens the stored bits as its type tag says.
getInt(col, content, failAt) ==
    getFixed("grngo_column_get_int", col.valueType, failAt,
             GoValue("int64", Widen(col.valueType, content)))

getFloat(content, failAt) ==
    getFixed("grngo_column_get_float", NoTag, failAt, GoValue("float64", content))

\* GeoPoint{int32(grnValue.latitude), int32(grnValue.longitude)}
GeoPoint(grnValue) == [Latitude |-> grnValue.latitude, Longitude |-> grnValue.longitude]

getGeoPoint(content, failAt) ==
    getFixed("grngo_column_get_geo_point", NoTag, failAt,
             GoValue("GeoPoint", GeoPoint(content)))

\* native: what a getter writes to a destination of `size` elements.
Filled(content, size) ==
    [i \in 1..(IF size < Len(content) THEN size ELSE Len(content)) |-> content[i]]

\* The get functions of text and of the bool, int, float and geo point
\* vectors: a call with a NULL destination for the size, nothing more when
\* the size is 0, else a call with a destination of that size.  content
\* holds the elements as the Go value receives them.
getSized(fn, tag, kind, content, failAt) ==
    LET failed == fn \o "() failed"
        size == Len(content)
        call1 == GetCall(fn, tag, FALSE, 0, <<>>, failAt # 1, size)
        call2 == GetCall(fn, tag, TRUE, size, <<>>, failAt # 2, size)
    IN  IF failAt = 1
        THEN GetResult(GoNil, failed, <<call1>>)
        ELSE IF size = 0
        THEN GetResult(GoValue(kind, <<>>), "", <<call1>>)
        ELSE IF failAt = 2
        THEN GetResult(GoNil, failed, <<call1, call2>>)
        ELSE GetResult(GoValue(kind, Filled(content, size)), "", <<call1, call2>>)

\* getText with a destination of one byte more than the size.
getText_Oversized(content, failAt) ==
    LET fn == "grngo_column_get_text"
        size == Len(content)
        call1 == GetCall(fn, NoTag, FALSE, 0, <<>>, failAt # 1, size)
        call2 == GetCall(fn, NoTag, TRUE, size + 1, <<>>, failAt # 2, size)
    IN  IF failAt = 1
        THEN GetResult(GoNil, fn \o "() failed", <<call1>>)
        ELSE IF size = 0
        THEN GetResult(GoValue("[]byte", <<>>), "", <<call1>>)
        ELSE IF failAt = 2
        THEN GetResult(GoNil, fn \o "() failed", <<call1, call2>>)
        ELSE GetResult(GoValue("[]byte", Filled(content, size + 1)), "", <<call1, call2>>)

getText(content, failAt) ==
    getSized("grngo_column_get_text", NoTag, "[]byte", content, failAt)

\* getBoolVector without its test of the size.
getBoolVector_Unchecked(content, failAt) ==
    LET fn == "grngo_column_get_bool_vector"
        size == Len(content)
        call1 == GetCall(fn, NoTag, FALSE, 0, <<>>, failAt # 1, size)
        call2 == GetCall(fn, NoTag, TRUE, size, <<>>, failAt # 2, size)
    IN  IF failAt = 1
        THEN GetResult(GoNil, fn \o "() failed", <<call1>>)
        ELSE IF failAt = 2
        THEN GetResult(GoNil, fn \o "() failed", <<call1, call2>>)
        ELSE GetResult(GoValue("[]bool", [i \in 1..size |-> content[i] = GRN_TRUE]), "",
                       <<call1, call2>>)

getBoolVector(content, failAt) ==
    getSized("grngo_column_get_bool_vector", NoTag, "[]bool",
             [i \in 1..Len(content) |-> content[i] = GRN_TRUE], failAt)

getIntVector(col, content, failAt) ==
    getSized("grngo_column_get_int_vector", col.valueType, "[]int64",
             [i \in 1..Len(content) |-> Widen(col.valueType, content[i])], failAt)

getFloatVector(content, failAt) ==
    getSized("grngo_column_get_float_vector", NoTag, "[]float64", content, failAt)

\* The native side writes the []GeoPoint in place.
getGeoPointVector(content, failAt) ==
    getSized("grngo_column_get_geo_point_vector", NoTag, "[]GeoPoint",
             [i \in 1..Len(content) |-> GeoPoint(content[i])], failAt)

\* The first call gets the number of elements, the second the sizes of the
\* elements, the third their bytes; an element of size 0 stays nil.
getTextVector(content, failAt) ==
    LET fn == "grngo_column_get_text_vector"
        failed == fn \o "() failed"
        size == Len(content)
        call1 == GetCall(fn, NoTag, FALSE, 0, <<>>, failAt # 1, size)
        sizes == [i \in 1..size |-> Len(content[i])]
        call2 == GetCall(fn, NoTag, TRUE, size,
                         [i \in 1..size |-> [ptr |-> FALSE, size |-> 0]], failAt # 2, size)
        call3 == GetCall(fn, NoTag, TRUE, size,
                         [i \in 1..size |-> [ptr |-> sizes[i] # 0, size |-> sizes[i]]],
                         failAt # 3, size)
        value == [i \in 1..size |->
                     IF sizes[i] # 0 THEN Bytes(Filled(content[i], sizes[i])) ELSE NilBytes]
    IN  IF failAt = 1
        THEN GetResult(GoNil, failed, <<call1>>)
        ELSE IF size = 0
        THEN GetResult(GoValue("[][]byte", <<>>), "", <<call1>>)
        ELSE IF failAt = 2
        THEN GetResult(GoNil, failed, <<call1, call2>>)
        ELSE IF failAt = 3
        THEN GetResult(GoNil, failed, <<call1, call2, call3>>)
        ELSE GetResult(GoValue("[][]byte", value), "", <<call1, call2, call3>>)

undefinedValueType(col) ==
    GetResult(GoNil, "undefined value type: valueType = " \o col.valueType, <<>>)

GetValue(col, content, failAt) ==
    IF ~col.isVector
    THEN CASE col.valueType = Bool -> getBool(content, failAt)
           [] col.valueType \in {Int8, Int16, Int32, Int64, UInt8, UInt16, UInt32, UInt64} ->
                getInt(col, content, failAt)
           [] col.valueType = Float -> getFloat(content, failAt)
           [] col.valueType \in {ShortText, Text, LongText} -> getText(content, failAt)
           [] col.valueType \in {TokyoGeoPoint, WGS84GeoPoint} -> getGeoPoint(content, failAt)
           [] OTHER -> undefinedValueType(col)
    ELSE CASE col.valueType = Bool -> getBoolVector(content, failAt)
           [] col.valueType \in {Int8, Int16, Int32, Int64, UInt8, UInt16, UInt32, UInt64} ->
                getIntVector(col, content, failAt)
           [] col.valueType = Float -> getFloatVector(content, failAt)
           [] col.valueType \in {ShortText, Text, LongText} -> getTextVector(content, failAt)
           [] col.valueType \in {TokyoGeoPoint, WGS84GeoPoint} ->
                getGeoPointVector(content, failAt)
           [] OTHER -> undefinedValueType(col)

----------------------------------------------------------------------------
(* The codec at work: SetValue and GetValue calls on one row of a Column   *)
(* of any value type, scalar or vector.                                    *)

ValueKinds ==
    {"bool", "int64", "float64", "GeoPoint", "[]byte",
     "[]bool", "[]int64", "[]float64", "[]GeoPoint", "[][]byte", "string"}
ScalarKinds == {"bool", "int64", "float64", "GeoPoint", "[]byte"}

\* The int64 values a column of an integer type is set to: the least and
\* the greatest value of the type and their neighbours outside of it.
IntInputs(valueType) ==
    CASE valueType = Int8 -> {I64(-129), I64(-128), I64(127), I64(128)}
      [] valueType = Int16 -> {I64(-32769), I64(-32768), I64(32767), I64(32768)}
      [] valueType = Int32 ->
           {<<65535, 32767, 65535, 65535>>, <<0, 32768, 65535, 65535>>,
            <<65535, 32767, 0, 0>>, <<0, 32768, 0, 0>>}
      [] valueType = Int64 -> {<<0, 0, 0, 32768>>, <<65535, 65535, 65535, 32767>>}
      [] valueType = UInt8 -> {I64(-1), I64(0), I64(255), I64(256)}
      [] valueType = UInt16 -> {I64(-1), I64(0), I64(65535), I64(65536)}
      [] valueType = UInt32 -> {I64(-1), I64(0), <<65535, 65535, 0, 0>>, <<0, 0, 1, 0>>}
      [] valueType = UInt64 -> {I64(-1), I64(0), <<65535, 65535, 65535, 32767>>}
      [] OTHER -> {I64(1)}

\* The scalar values of a Go type; one of them when the type is not that
\* of the column (full = FALSE).
ElemInputs(valueType, kind, full) ==
    CASE kind = "bool" -> IF full THEN BOOLEAN ELSE {TRUE}
      [] kind = "int64" -> IF full THEN IntInputs(valueType) ELSE {I64(1)}
      [] kind = "float64" -> IF full THEN {0, 1} ELSE {1}
      [] kind = "GeoPoint" ->
           IF full
           THEN {[Latitude |-> 1, Longitude |-> 2], [Latitude |-> -3, Longitude |-> 4]}
           ELSE {[Latitude |-> 1, Longitude |-> 2]}
      [] kind = "[]byte" -> IF full THEN BytesUpTo({97, 98}, MaxTextLen) ELSE {<<97>>}

\* The elements of the vectors of a Go type.
VecElemInputs(valueType, kind, full) ==
    CASE kind = "[]bool" -> ElemInputs(valueType, "bool", full)
      [] kind = "[]int64" -> ElemInputs(valueType, "int64", full)
      [] kind = "[]float64" -> ElemInputs(valueType, "float64", full)
      [] kind = "[]GeoPoint" -> ElemInputs(valueType, "GeoPoint", full)
      [] kind = "[][]byte" ->
           {Bytes(s) : s \in IF full THEN BytesUpTo({97}, MaxTextLen) ELSE {<<97>>}}

VectorsUpTo(elems, n) == UNION {[1..k -> elems] : k \in 0..n}

\* The values SetValue is called with, by Go type: every value of the type
\* of the column, one value of each other type.
SetInputs(col, kind) ==
    CASE kind = "string" -> {GoValue("string", "value")}
      [] kind \in ScalarKinds ->
           {GoValue(kind, e) : e \in ElemInputs(col.valueType, kind, kind = KindOf(col))}
      [] OTHER ->
           {GoValue(kind, s) :
               s \in IF kind = KindOf(col)
                     THEN VectorsUpTo(VecElemInputs(col.valueType, kind, TRUE), MaxVecLen)
                     ELSE {<<e>> : e \in VecElemInputs(col.valueType, kind, FALSE)}}

\* What a cell that holds garbage may read as.
ElemSamples(valueType) ==
    CASE valueType = Bool -> {GRN_FALSE, GRN_TRUE}
      [] valueType \in IntTypes -> {Raw(valueType, I64(0)), Raw(valueType, I64(-1))}
      [] valueType = Float -> {0, 1}
      [] valueType \in TextTypes -> {<<>>, <<97>>}
      [] valueType \in GeoTypes -> {[latitude |-> 0, longitude |-> 0]}
      [] OTHER -> {0}
CellInputs(col) ==
    IF col.isVector
    THEN {<<>>} \cup {<<e>> : e \in ElemSamples(col.valueType)}
    ELSE ElemSamples(col.valueType)
Contents(col, c) == IF c.layout = "garbage" THEN CellInputs(col) ELSE {c.v}

CodecInit ==
    /\ column \in [valueType : DataType, isVector : BOOLEAN]
    /\ cell = Stored(DefaultContent(column))
    /\ lastSet = GoNil
    /\ ret = [op |-> "none"]

SetValueStep ==
    \E kind \in ValueKinds, ok \in BOOLEAN :
        \E value \in SetInputs(column, kind) :
            \E r \in {SetValue(column, cell, value, ok)} :
                /\ cell' = r.cell
                /\ lastSet' = IF r.err = "" THEN value ELSE lastSet
                /\ ret' = [op |-> "SetValue", value |-> value,
                           err |-> r.err, calls |-> r.calls]
                /\ UNCHANGED column

GetValueStep ==
    \E failAt \in 0..MaxFailAt :
        \E content \in Contents(column, cell) :
            \E r \in {GetValue(column, content, failAt)} :
                /\ ret' = [op |-> "GetValue", value |-> r.value,
                           err |-> r.err, calls |-> r.calls]
                /\ UNCHANGED <<column, cell, lastSet>>

CodecNext ==
    \/ SetValueStep /\ UNCHANGED <<catalogVars, insertVars, sendVars, lifeVars, raceVars>>
    \/ GetValueStep /\ UNCHANGED <<catalogVars, insertVars, sendVars, lifeVars, raceVars>>

----------------------------------------------------------------------------
(* The claims about the codec.                                             *)

\* The Go types SetValue has a case for.
AcceptedKinds == ValueKinds \ {"string"}

\* The least and the greatest int64 that an integer type holds.
MinOf(valueType) ==
    CASE valueType = Int8 -> I64(-128)
      [] valueType = Int16 -> I64(-32768)
      [] valueType = Int32 -> <<0, 32768, 65535, 65535>>
      [] valueType = Int64 -> <<0, 0, 0, 32768>>
      [] OTHER -> I64(0)
MaxOf(valueType) ==
    CASE valueType = Int8 -> I64(127)
      [] valueType = Int16 -> I64(32767)
      [] valueType = Int32 -> <<65535, 32767, 0, 0>>
      [] valueType = UInt8 -> I64(255)
      [] valueType = UInt16 -> I64(65535)
      [] valueType = UInt32 -> <<65535, 65535, 0, 0>>
      [] OTHER -> <<65535, 65535, 65535, 32767>>

\* a <= b for two int64: the words are compared from the highest, the
\* highest with its sign bit flipped.
SignedKey(v) == <<(v[4] + 32768) % 65536, v[3], v[2], v[1]>>
LessEq(a, b) ==
    \/ a = b
    \/ \E i \in 1..4 :
        /\ \A j \in 1..(i - 1) : SignedKey(a)[j] = SignedKey(b)[j]
        /\ SignedKey(a)[i] < SignedKey(b)[i]
InRange(valueType, v) == LessEq(MinOf(valueType), v) /\ LessEq(v, MaxOf(valueType))

\* A Go value of the type of the column whose integers the column can hold.
Representable(col, value) ==
    /\ value.kind = KindOf(col)
    /\ col.valueType \in IntTypes =>
          IF col.isVector
          THEN \A i \in 1..Len(value.v) : InRange(col.valueType, value.v[i])
          ELSE InRange(col.valueType, value.v)

\* Two Go values of one type with equal contents: a nil []byte and an
\* empty one are equal.
SameContent(a, b) ==
    /\ a.kind = b.kind
    /\ IF a.kind = "[][]byte"
       THEN /\ Len(a.v) = Len(b.v)
            /\ \A i \in 1..Len(a.v) : a.v[i].v = b.v[i].v
       ELSE a.v = b.v

\* The columns whose values have no fixed size: text, and every vector.
TwoPhase(col) ==
    KindOf(col) \in {"[]byte", "[]bool", "[]int64", "[]float64", "[]GeoPoint", "[][]byte"}
\* The first native call of the last GetValue succeeded.
SizeFound == ret.op = "GetValue" /\ Len(ret.calls) >= 1 /\ ret.calls[1].ok

GeoSetCall(c) ==
    c.fn \in {"grngo_column_set_geo_point", "grngo_column_set_geo_point_vector"}
GeoGetCall(c) ==
    c.fn \in {"grngo_column_get_geo_point", "grngo_column_get_geo_point_vector"}

\* C5: SetValue of a value of an accepted Go type that is not the type of
\* the values of the column returns the type conflict error and makes no
\* native call.
C5_ConflictBeforeNativeCall ==
    (/\ ret.op = "SetValue"
     /\ ret.value.kind \in AcceptedKinds
     /\ ret.value.kind # KindOf(column))
    => ret.err = "value type conflict" /\ Len(ret.calls) = 0

\* C6: a GetValue that succeeds returns a value equal to the value of the
\* last SetValue that succeeded, when that value is of the type of the
\* column and within the range of the column's integer type.
C6_RoundTrip ==
    (/\ ret.op = "GetValue"
     /\ ret.err = ""
     /\ Representable(column, lastSet))
    => SameContent(ret.value, lastSet)

\* C6's case: -128 was set on a scalar Int8 column and read back.
C6_Witness ==
    /\ ret.op = "GetValue"
    /\ ret.err = ""
    /\ column = [valueType |-> Int8, isVector |-> FALSE]
    /\ lastSet.kind = "int64"
    /\ lastSet.v = I64(-128)
    /\ ret.value.v = I64(-128)

\* C7: SetValue of an int64, or of a []int64 with an element, outside the
\* range of the integer type of the column returns an error.
C7_OutOfRangeIsAnError ==
    (/\ ret.op = "SetValue"
     /\ column.valueType \in IntTypes
     /\ ret.value.kind = KindOf(column)
     /\ ~Representable(column, ret.value))
    => ret.err # ""

\* C8, as stated: a GetValue of text or of any vector that finds a size
\* above 0 makes exactly two native calls, the first with a NULL
\* destination, the second with a destination of the size found.
C8_ExactlyTwoCalls ==
    (/\ SizeFound
     /\ TwoPhase(column)
     /\ ret.calls[1].out > 0)
    => /\ Len(ret.calls) = 2
       /\ ~ret.calls[1].ptr
       /\ ret.calls[2].ptr
       /\ ret.calls[2].size = ret.calls[1].out

\* C8, amended: such a GetValue makes a first call with a NULL destination
\* and a second with a destination of exactly the size found.  For text and
\* for bool, int, float and geo point vectors these are all the calls.  For
\* a text vector the destination of the second call is an array of that
\* many elements without buffers, and when the call succeeds a third and
\* last call follows whose elements have a buffer of their size where the
\* size is not 0.
C8_SizeThenFill ==
    (/\ SizeFound
     /\ TwoPhase(column)
     /\ ret.calls[1].out > 0)
    => /\ ~ret.calls[1].ptr
       /\ ret.calls[1].size = 0
       /\ Len(ret.calls) >= 2
       /\ ret.calls[2].ptr
       /\ ret.calls[2].size = ret.calls[1].out
       /\ KindOf(column) # "[][]byte" => Len(ret.calls) = 2
       /\ KindOf(column) = "[][]byte" =>
            /\ Len(ret.calls[2].elems) = ret.calls[1].out
            /\ \A i \in 1..Len(ret.calls[2].elems) : ~ret.calls[2].elems[i].ptr
            /\ ~ret.calls[2].ok => Len(ret.calls) = 2
            /\ ret.calls[2].ok =>
                 /\ Len(ret.calls) = 3
                 /\ ret.calls[3].ptr
                 /\ ret.calls[3].size = ret.calls[1].out
                 /\ Len(ret.calls[3].elems) = ret.calls[1].out
                 /\ \A i \in 1..Len(ret.calls[3].elems) :
                        ret.calls[3].elems[i].ptr = (ret.calls[3].elems[i].size > 0)
                 /\ ret.err = "" =>
                      \A i \in 1..Len(ret.value.v) :
                          Len(ret.value.v[i].v) = ret.calls[3].elems[i].size

\* C8's case: a text vector with elements was read in three calls.
C8_Witness ==
    /\ ret.op = "GetValue"
    /\ ret.err = ""
    /\ KindOf(column) = "[][]byte"
    /\ Len(ret.value.v) > 0
    /\ Len(ret.calls) = 3

\* C9: a GetValue of text or of any vector whose first native call finds
\* the size 0 returns an empty value of the type of the column that is not
\* nil, no error, and makes no second native call.
C9_EmptyWithoutSecondCall ==
    (/\ SizeFound
     /\ TwoPhase(column)
     /\ ret.calls[1].out = 0)
    => /\ ret.err = ""
       /\ ret.value.kind = KindOf(column)
       /\ Len(ret.value.v) = 0
       /\ Len(ret.calls) = 1

\* C9's case: an empty bool vector was set and read back.
C9_Witness ==
    /\ SizeFound
    /\ column = [valueType |-> Bool, isVector |-> TRUE]
    /\ lastSet.kind = "[]bool"
    /\ ret.calls[1].out = 0
    /\ ret.err = ""

\* C10, as stated: on a geo point column every native geo point call,
\* of SetValue and of GetValue, is passed the value type of the column.
C10_TagInBothDirections ==
    (ret.op \in {"SetValue", "GetValue"} /\ column.valueType \in GeoTypes)
    => \A i \in 1..Len(ret.calls) :
           (GeoSetCall(ret.calls[i]) \/ GeoGetCall(ret.calls[i]))
           => ret.calls[i].tag = column.valueType

\* C10, amended: every native geo point call of SetValue, scalar or
\* vector, is passed the value type of the column; the native geo point
\* calls of GetValue are passed no type tag.
C10_TagOnSetOnly ==
    ret.op \in {"SetValue", "GetValue"}
    => \A i \in 1..Len(ret.calls) :
           /\ GeoSetCall(ret.calls[i]) => ret.calls[i].tag = column.valueType
           /\ GeoGetCall(ret.calls[i]) => ret.calls[i].tag = NoTag

\* C10's case: a GeoPoint was set on a scalar TokyoGeoPoint column.
C10_Witness ==
    /\ ret.op = "SetValue"
    /\ ret.err = ""
    /\ column = [valueType |-> TokyoGeoPoint, isVector |-> FALSE]
    /\ Len(ret.calls) = 1
    /\ ret.calls[1].tag = TokyoGeoPoint

----------------------------------------------------------------------------
(* The specifications: one per part of the program.  The variables of the  *)
(* other parts keep their initial values.                                  *)

CatalogIdle == db = newDB
InsertIdle == table = [name |-> "T", keyType |-> Void] /\ rows = <<>> /\ firstId = <<>>
SendIdle == cmd = [name |-> <<>>, options |-> <<>>, outcome |-> "ok"] /\ sent = <<>>
CodecIdle ==
    /\ column = [valueType |-> Void, isVector |-> FALSE]
    /\ cell = Stored(DefaultContent(column))
    /\ lastSet = GoNil

LifeIdle == initCount = 0 /\ handles = <<>> /\ disabled = FALSE /\ assumed = TRUE
RaceIdle == procs = <<>>

InitInsert == InsertInit /\ CatalogIdle /\ SendIdle /\ CodecIdle /\ LifeIdle /\ RaceIdle
InitCatalog == CatalogInit /\ InsertIdle /\ SendIdle /\ CodecIdle /\ LifeIdle /\ RaceIdle
InitSend == SendInit /\ CatalogIdle /\ InsertIdle /\ CodecIdle /\ LifeIdle /\ RaceIdle
InitCodec == CodecInit /\ CatalogIdle /\ InsertIdle /\ SendIdle /\ LifeIdle /\ RaceIdle
InitCreate == CreateInit /\ InsertIdle /\ SendIdle /\ CodecIdle /\ LifeIdle /\ RaceIdle
InitRace == RaceInit /\ InsertIdle /\ SendIdle /\ CodecIdle /\ LifeIdle
InitLife == LifeInit /\ CatalogIdle /\ InsertIdle /\ SendIdle /\ CodecIdle /\ RaceIdle

SpecInsert == InitInsert /\ [][InsertNext]_vars
SpecCatalog == InitCatalog /\ [][CatalogNext]_vars
SpecPath == InitCatalog /\ [][PathNext]_vars
SpecSend == InitSend /\ [][SendNext]_vars
SpecCodec == InitCodec /\ [][CodecNext]_vars
SpecCreate == InitCreate /\ [][CreateNext]_vars
SpecRace == InitRace /\ [][RaceNext]_vars
SpecLife == InitLife /\ [][LifeNext]_vars
SpecHandle == InitLife /\ [][HandleNext]_vars

====
